---- MODULE Spec2Model ----
(***************************************************************************)
(* A model of the HL7 v2.x SIU^S12 parser: the tokenizer (delimiter        *)
(* detection, segment and field splitting), the timestamp normalizer, the  *)
(* segment extractors and the message parser.  Python strings are TLA+     *)
(* strings, indexed from 1; Optional values are <<>> (None) or <<v>>.      *)
(***************************************************************************)
EXTENDS Integers, Sequences, FiniteSets, TLC

(***************************************************************************)
(* str helpers                                                             *)
(***************************************************************************)
CharAt(s, i) == SubSeq(s, i, i)

StartsWith(s, p) == Len(s) >= Len(p) /\ SubSeq(s, 1, Len(p)) = p

CharsOf(s) == {CharAt(s, i) : i \in 1..Len(s)}

UpperLetters == "ABCDEFGHIJKLMNOPQRSTUVWXYZ"

LowerLetters == "abcdefghijklmnopqrstuvwxyz"

DigitChars == "0123456789"

WhitespaceChars == {" ", "\t", "\n", "\r", "\f"}

DigitSet == CharsOf(DigitChars)

AlnumChars == CharsOf(UpperLetters) \cup CharsOf(LowerLetters) \cup DigitSet

isalnum(c) == c \in AlnumChars

isspace(c) == c \in WhitespaceChars

isdigit(c) == c \in DigitSet

\* str.split(sep) for a one-character separator: always at least one piece.
\* at is the set of positions of sep in s, start the position the next piece begins at
RECURSIVE SplitFrom(_, _, _)
SplitFrom(s, at, start) ==
    LET rest == {i \in at : i >= start}
    IN  IF rest = {} THEN <<SubSeq(s, start, Len(s))>>
        ELSE LET i == CHOOSE i \in rest : \A j \in rest : i <= j
             IN  <<SubSeq(s, start, i - 1)>> \o SplitFrom(s, at, i + 1)

split(s, sep) == SplitFrom(s, {i \in 1..Len(s) : CharAt(s, i) = sep}, 1)

\* sep.join(parts)
RECURSIVE join(_, _)
join(sep, parts) ==
    IF Len(parts) = 0 THEN ""
    ELSE IF Len(parts) = 1 THEN parts[1]
    ELSE parts[1] \o sep \o join(sep, Tail(parts))

\* str.strip(): whitespace removed at both ends (lead and trail count it)
strip(s) ==
    LET n == Len(s)
    IN  IF \A i \in 1..n : isspace(CharAt(s, i)) THEN ""
        ELSE LET lead  == CHOOSE k \in 0..(n - 1) :
                              /\ ~isspace(CharAt(s, k + 1))
                              /\ \A j \in 1..k : isspace(CharAt(s, j))
                 trail == CHOOSE k \in 0..(n - 1) :
                              /\ ~isspace(CharAt(s, n - k))
                              /\ \A j \in 0..(k - 1) : isspace(CharAt(s, n - j))
             IN  SubSeq(s, lead + 1, n - trail)

\* str.lower() on ASCII letters
lowerChar(c) ==
    LET up == {i \in 1..Len(UpperLetters) : CharAt(UpperLetters, i) = c}
    IN  IF up = {} THEN c ELSE CharAt(LowerLetters, CHOOSE i \in up : TRUE)

RECURSIVE lower(_)
lower(s) == IF s = "" THEN "" ELSE lowerChar(CharAt(s, 1)) \o lower(SubSeq(s, 2, Len(s)))

\* [x for x in xs if pred]: the non-empty strings of a sequence, in order
RECURSIVE NonEmpty(_)
NonEmpty(xs) ==
    IF Len(xs) = 0 THEN <<>>
    ELSE IF xs[1] = "" THEN NonEmpty(Tail(xs))
    ELSE <<xs[1]>> \o NonEmpty(Tail(xs))

\* Optional values
None == <<>>

Some(v) == <<v>>

(***************************************************************************)
(* exceptions.py                                                           *)
(***************************************************************************)
\* HL7ParseError.__init__: the message, with the segment detail when one is given
HL7ParseError(kind, message, segment) ==
    [kind |-> kind, segment |-> segment,
     text |-> IF segment # "" THEN message \o " [segment=" \o segment \o "]" ELSE message]

InvalidMessageTypeError(expected, actual) ==
    HL7ParseError("InvalidMessageTypeError",
                  "Invalid message type: expected '" \o expected \o "', got '" \o actual \o "'",
                  "MSH")

MissingSegmentError(segment_type) ==
    HL7ParseError("MissingSegmentError",
                  "Required segment '" \o segment_type \o "' not found in message",
                  segment_type)

MalformedSegmentError(segment_type, reason) ==
    HL7ParseError("MalformedSegmentError", "Malformed segment: " \o reason, segment_type)

InvalidTimestampError(value, reason) ==
    HL7ParseError("InvalidTimestampError",
                  "Invalid HL7 timestamp: '" \o value \o "' - " \o reason, "")

(***************************************************************************)
(* tokenizer.py                                                            *)
(***************************************************************************)
DEFAULT_FIELD_SEPARATOR == "|"

DEFAULT_COMPONENT_SEPARATOR == "^"

DEFAULT_REPETITION_SEPARATOR == "~"

DEFAULT_ESCAPE_CHARACTER == "\\"

DEFAULT_SUBCOMPONENT_SEPARATOR == "&"

\* Delimiters(): the dataclass defaults
Delimiters ==
    [field |-> DEFAULT_FIELD_SEPARATOR, component |-> DEFAULT_COMPONENT_SEPARATOR,
     repetition |-> DEFAULT_REPETITION_SEPARATOR, escape |-> DEFAULT_ESCAPE_CHARACTER,
     subcomponent |-> DEFAULT_SUBCOMPONENT_SEPARATOR]

DelimiterNames == <<"field", "component", "repetition", "escape", "subcomponent">>

Segment(segment_type, fields, raw_text) ==
    [segment_type |-> segment_type, fields |-> fields, raw_text |-> raw_text]

\* (mutant: a negative index counts from the end, as list indexing does)
get_field_wrap(seg, index, default) ==
    LET at(k) == IF seg.fields[k] = "" THEN default ELSE seg.fields[k]
    IN  IF index >= Len(seg.fields) \/ index < 0 - Len(seg.fields) THEN default
        ELSE IF index < 0 THEN at(Len(seg.fields) + index + 1) ELSE at(index + 1)

\* Segment.get_field: fields are 0-based in the code, 1-based here
get_field(seg, index, default) ==
    IF index < 0 \/ index >= Len(seg.fields) THEN default
    ELSE IF seg.fields[index + 1] = "" THEN default ELSE seg.fields[index + 1]

get_component(seg, field_index, component_index, separator, default) ==
    LET pick(components) ==
            IF component_index < 0 \/ component_index >= Len(components) THEN default
            ELSE IF components[component_index + 1] = "" THEN default
            ELSE components[component_index + 1]
        of_field(field_value) ==
            IF field_value = "" THEN default ELSE pick(split(field_value, separator))
    IN  of_field(get_field(seg, field_index, ""))

get_subcomponent(seg, field_index, component_index, subcomponent_index, component_sep, subcomponent_sep, default) ==
    LET pick(subcomponents) ==
            IF subcomponent_index < 0 \/ subcomponent_index >= Len(subcomponents)
            THEN default
            ELSE IF subcomponents[subcomponent_index + 1] = "" THEN default
            ELSE subcomponents[subcomponent_index + 1]
        of_component(component) ==
            IF component = "" THEN default ELSE pick(split(component, subcomponent_sep))
    IN  of_component(get_component(seg, field_index, component_index, component_sep, ""))

\* text.replace("\r\n", "\n").replace("\r", "\n")
RECURSIVE RejoinCR(_)
RejoinCR(pieces) ==
    IF Len(pieces) = 0 THEN ""
    ELSE (IF StartsWith(pieces[1], "\n") THEN pieces[1] ELSE "\n" \o pieces[1])
         \o RejoinCR(Tail(pieces))

\* (mutant: a carriage return on its own is not a line end)
normalize_line_endings_crlf_only(text) ==
    LET rejoin(pieces) == join("", pieces)
    IN  rejoin(split(text, "\r"))

normalize_line_endings(text) ==
    LET rejoin(pieces) == pieces[1] \o RejoinCR(Tail(pieces))
    IN  rejoin(split(text, "\r"))

\* [s.strip() for s in normalized.split("\n") if s.strip()]
RECURSIVE StripAll(_)
StripAll(xs) == IF Len(xs) = 0 THEN <<>> ELSE <<strip(xs[1])>> \o StripAll(Tail(xs))

raw_segments_of(normalized) == NonEmpty(StripAll(split(normalized, "\n")))

\* index of the first raw segment that starts with "MSH", 0 if there is none
FirstMSH(raw_segments) ==
    LET hits == {i \in 1..Len(raw_segments) : StartsWith(raw_segments[i], "MSH")}
    IN  IF hits = {} THEN 0 ELSE CHOOSE i \in hits : \A j \in hits : i <= j

\* the assignments of _detect_delimiters, before its call of _validate_delimiters:
\* the tokenizer's Delimiters object d is updated in place
assign_delimiters(d, raw_segments) ==
    LET from_header(msh_line) ==
            LET field == IF Len(msh_line) >= 4 THEN CharAt(msh_line, 4) ELSE d.field
            IN  IF Len(msh_line) >= 8
                THEN [field |-> field,
                      component |-> CharAt(msh_line, 5),
                      repetition |-> CharAt(msh_line, 6),
                      escape |-> CharAt(msh_line, 7),
                      subcomponent |-> CharAt(msh_line, 8)]
                ELSE [d EXCEPT !.field = field]
        from_index(k) == IF k = 0 THEN d ELSE from_header(raw_segments[k])
    IN  from_index(FirstMSH(raw_segments))

\* _validate_delimiters: None, or the MalformedSegmentError it raises
validate_delimiters(d) ==
    LET bad == {i \in 1..5 : LET char == d[DelimiterNames[i]]
                             IN  char = "" \/ isalnum(char) \/ isspace(char)}
        dup == {i \in 1..5 : \E j \in 1..(i - 1) : d[DelimiterNames[j]] = d[DelimiterNames[i]]}
    IN  IF bad # {}
        THEN LET i == CHOOSE i \in bad : \A j \in bad : i <= j
             IN  Some(MalformedSegmentError("MSH",
                     "Invalid " \o DelimiterNames[i] \o " delimiter '" \o d[DelimiterNames[i]]
                     \o "': must be a non-alphanumeric, non-whitespace character"))
        ELSE IF dup # {}
        THEN LET i == CHOOSE i \in dup : \A j \in dup : i <= j
             IN  Some(MalformedSegmentError("MSH",
                     "Conflicting delimiter: '" \o d[DelimiterNames[i]]
                     \o "' used for multiple purposes"))
        ELSE None

\* _detect_delimiters: the new delimiter state and what validation raises
detect_delimiters(d, raw_segments) ==
    LET validated(d2) == [delimiters |-> d2, error |-> validate_delimiters(d2)]
    IN  validated(assign_delimiters(d, raw_segments))

parse_msh_segment(d, raw_text) ==
    LET with_separator(sep) ==
            LET with_parts(parts) == Segment("MSH", <<parts[1], sep>> \o Tail(parts), raw_text)
            IN  with_parts(split(raw_text, sep))
    IN  with_separator(IF Len(raw_text) > 3 THEN CharAt(raw_text, 4) ELSE d.field)

\* (mutant: the raw text kept for a segment ends at its first field separator)
parse_segment_raw_type(d, raw_text) ==
    LET with_fields(fields) == Segment(fields[1], fields, fields[1])
    IN  IF StartsWith(raw_text, "MSH") THEN parse_msh_segment(d, raw_text)
        ELSE with_fields(split(raw_text, d.field))

parse_segment(d, raw_text) ==
    LET with_fields(fields) == Segment(fields[1], fields, raw_text)
    IN  IF StartsWith(raw_text, "MSH") THEN parse_msh_segment(d, raw_text)
        ELSE with_fields(split(raw_text, d.field))

RECURSIVE ParseSegments(_, _)
ParseSegments(d, raws) ==
    IF Len(raws) = 0 THEN <<>>
    ELSE <<parse_segment(d, raws[1])>> \o ParseSegments(d, Tail(raws))

\* HL7Tokenizer.tokenize on a tokenizer whose delimiters are d: the delimiters
\* afterwards, the error raised (None if none) and the segments returned
tokenize(d, message_text) ==
    LET detected(raw_segments, det) ==
            IF det.error # None
            THEN [delimiters |-> det.delimiters, error |-> det.error, segments |-> <<>>]
            ELSE [delimiters |-> det.delimiters, error |-> None,
                  segments |-> ParseSegments(det.delimiters, raw_segments)]
        of_segments(raw_segments) ==
            IF Len(raw_segments) = 0
            THEN [delimiters |-> d, error |-> None, segments |-> <<>>]
            ELSE detected(raw_segments, detect_delimiters(d, raw_segments))
    IN  of_segments(raw_segments_of(normalize_line_endings(message_text)))

\* split_hl7_messages: the loop over the lines, cur is current_message_lines
RECURSIVE SplitLines(_, _, _)
SplitLines(lines, cur, messages) ==
    LET line(stripped) ==
            IF stripped = "" THEN SplitLines(Tail(lines), cur, messages)
            ELSE IF StartsWith(stripped, "MSH")
            THEN SplitLines(Tail(lines), <<stripped>>,
                            IF Len(cur) > 0 THEN Append(messages, join("\n", cur))
                            ELSE messages)
            ELSE SplitLines(Tail(lines),
                            IF Len(cur) > 0 THEN Append(cur, stripped) ELSE cur,
                            messages)
    IN  IF Len(lines) = 0
        THEN IF Len(cur) > 0 THEN Append(messages, join("\n", cur)) ELSE messages
        ELSE line(strip(lines[1]))

\* (mutant: the lines before the first header line make a message of their own)
RECURSIVE SplitLines_leading(_, _, _)
SplitLines_leading(lines, cur, messages) ==
    LET line(stripped) ==
            IF stripped = "" THEN SplitLines_leading(Tail(lines), cur, messages)
            ELSE IF StartsWith(stripped, "MSH")
            THEN SplitLines_leading(Tail(lines), <<stripped>>,
                                    IF Len(cur) > 0 THEN Append(messages, join("\n", cur))
                                    ELSE messages)
            ELSE SplitLines_leading(Tail(lines), Append(cur, stripped), messages)
    IN  IF Len(lines) = 0
        THEN IF Len(cur) > 0 THEN Append(messages, join("\n", cur)) ELSE messages
        ELSE line(strip(lines[1]))

split_hl7_messages_leading(content) ==
    SplitLines_leading(split(normalize_line_endings(content), "\n"), <<>>, <<>>)

split_hl7_messages(content) ==
    SplitLines(split(normalize_line_endings(content), "\n"), <<>>, <<>>)

(***************************************************************************)
(* timestamps.py                                                           *)
(***************************************************************************)
AllDigits(s) == \A i \in 1..Len(s) : isdigit(CharAt(s, i))

DigitValue(c) == (CHOOSE i \in 1..10 : CharAt(DigitChars, i) = c) - 1

\* int() of a string of decimal digits
RECURSIVE DigitsToInt(_)
DigitsToInt(s) ==
    IF s = "" THEN 0
    ELSE 10 * DigitsToInt(SubSeq(s, 1, Len(s) - 1)) + DigitValue(CharAt(s, Len(s)))

\* str(n)
RECURSIVE IntToStr(_)
IntToStr(n) ==
    IF n < 0 THEN "-" \o IntToStr(0 - n)
    ELSE IF n < 10 THEN CharAt(DigitChars, n + 1)
    ELSE IntToStr(n \div 10) \o CharAt(DigitChars, (n % 10) + 1)

RECURSIVE Zeros(_)
Zeros(k) == IF k <= 0 THEN "" ELSE "0" \o Zeros(k - 1)

\* (mutant: the number is not padded with zeros)
Fmt_unpadded(n, w) == IntToStr(n)

\* f"{n:0wd}" for n >= 0
Fmt(n, w) ==
    LET pad(t) == Zeros(w - Len(t)) \o t
    IN  pad(IntToStr(n))

IsLeap(year) == (year % 4 = 0 /\ year % 100 # 0) \/ year % 400 = 0

DaysInMonth(year, month) ==
    IF month \in {4, 6, 9, 11} THEN 30
    ELSE IF month = 2 THEN (IF IsLeap(year) THEN 29 ELSE 28)
    ELSE 31

\* _validate_date: None, or the text of the ValueError
validate_date(year, month, day) ==
    IF ~(1 <= month /\ month <= 12)
    THEN Some("month must be 1-12, got " \o IntToStr(month))
    ELSE IF ~(1 <= day /\ day <= 31)
    THEN Some("day must be 1-31, got " \o IntToStr(day))
    ELSE IF year < 1 THEN Some("year " \o IntToStr(year) \o " is out of range")
    ELSE IF day > DaysInMonth(year, month) THEN Some("day is out of range for month")
    ELSE None

\* _validate_time: None, or the text of the ValueError
validate_time(hour, minute, second) ==
    IF ~(0 <= hour /\ hour <= 23) THEN Some("hour must be 0-23, got " \o IntToStr(hour))
    ELSE IF ~(0 <= minute /\ minute <= 59)
    THEN Some("minute must be 0-59, got " \o IntToStr(minute))
    ELSE IF ~(0 <= second /\ second <= 59)
    THEN Some("second must be 0-59, got " \o IntToStr(second))
    ELSE None

\* (mutant: the minutes are sliced one character early)
convert_tz_offset_minutes_early(hl7_offset) ==
    IF hl7_offset = "" THEN "Z"
    ELSE IF hl7_offset \in {"Z", "+0000", "-0000"} THEN "Z"
    ELSE SubSeq(hl7_offset, 1, 1) \o SubSeq(hl7_offset, 2, 3) \o ":" \o SubSeq(hl7_offset, 3, 4)

convert_tz_offset(hl7_offset) ==
    IF hl7_offset = "" THEN "Z"
    ELSE IF hl7_offset \in {"Z", "+0000", "-0000"} THEN "Z"
    ELSE SubSeq(hl7_offset, 1, 1) \o SubSeq(hl7_offset, 2, 3) \o ":" \o SubSeq(hl7_offset, 4, 5)

\* [+-]\d{4}
IsTzOffset(s) == Len(s) = 5 /\ CharAt(s, 1) \in {"+", "-"} /\ AllDigits(SubSeq(s, 2, 5))

\* HL7_TIMESTAMP_PATTERNS: the format type of the first pattern that matches
\* the whole value, "" if none does
match_format(value) ==
    LET n == Len(value)
        head(k) == n >= k /\ AllDigits(SubSeq(value, 1, k))
    IN  IF head(14) /\ n >= 21 /\ CharAt(value, 15) = "."
           /\ AllDigits(SubSeq(value, 16, n - 5)) /\ IsTzOffset(SubSeq(value, n - 4, n))
        THEN "full_with_tz_fraction"
        ELSE IF head(14) /\ n = 19 /\ IsTzOffset(SubSeq(value, 15, 19)) THEN "full_with_tz"
        ELSE IF head(12) /\ n = 17 /\ IsTzOffset(SubSeq(value, 13, 17)) THEN "minutes_with_tz"
        ELSE IF head(14) /\ n >= 16 /\ CharAt(value, 15) = "." /\ AllDigits(SubSeq(value, 16, n))
        THEN "full_with_fraction"
        ELSE IF n = 14 /\ head(14) THEN "full"
        ELSE IF n = 12 /\ head(12) THEN "minutes"
        ELSE IF n = 10 /\ head(10) THEN "hours"
        ELSE IF n = 8 /\ head(8) THEN "date"
        ELSE IF n = 6 /\ head(6) THEN "month"
        ELSE IF n = 4 /\ head(4) THEN "year"
        ELSE ""

\* fraction[:3].ljust(3, "0")
normalize_fraction(fraction) ==
    LET cut == SubSeq(fraction, 1, IF Len(fraction) < 3 THEN Len(fraction) ELSE 3)
    IN  cut \o Zeros(3 - Len(cut))

\* the result of a parser: a value (None or a string) or the error raised
Returned(v) == [value |-> v, error |-> None]

Raised(e) == [value |-> None, error |-> Some(e)]

\* _convert_matched_timestamp
convert_matched_timestamp(value, format_type, assume_utc) ==
    LET n == Len(value)
        tz_suffix == IF assume_utc THEN "Z" ELSE ""
        int(first, last) == DigitsToInt(SubSeq(value, first, last))
        checked(dateErr, timeErr, out) ==
            IF dateErr # None THEN Raised(InvalidTimestampError(value, dateErr[1]))
            ELSE IF timeErr # None THEN Raised(InvalidTimestampError(value, timeErr[1]))
            ELSE Returned(Some(out))
        \* the date, the time with the given text after it
        stamp(year, month, day, hour, minute, second, tail) ==
            checked(validate_date(year, month, day), validate_time(hour, minute, second),
                    Fmt(year, 4) \o "-" \o Fmt(month, 2) \o "-" \o Fmt(day, 2) \o "T"
                    \o Fmt(hour, 2) \o ":" \o Fmt(minute, 2) \o ":" \o Fmt(second, 2) \o tail)
        convert(year, month, day) ==
            CASE format_type = "year" -> Returned(Some(Fmt(year, 4)))
              [] format_type = "month" -> Returned(Some(Fmt(year, 4) \o "-" \o Fmt(month, 2)))
              [] format_type = "date" ->
                    checked(validate_date(year, month, day), None,
                            Fmt(year, 4) \o "-" \o Fmt(month, 2) \o "-" \o Fmt(day, 2))
              [] format_type = "hours" ->
                    stamp(year, month, day, int(9, 10), 0, 0, tz_suffix)
              [] format_type = "minutes" ->
                    stamp(year, month, day, int(9, 10), int(11, 12), 0, tz_suffix)
              [] format_type = "full" ->
                    stamp(year, month, day, int(9, 10), int(11, 12), int(13, 14), tz_suffix)
              [] format_type = "full_with_fraction" ->
                    stamp(year, month, day, int(9, 10), int(11, 12), int(13, 14),
                          "." \o normalize_fraction(SubSeq(value, 16, n)) \o tz_suffix)
              [] format_type = "minutes_with_tz" ->
                    stamp(year, month, day, int(9, 10), int(11, 12), 0,
                          convert_tz_offset(SubSeq(value, 13, 17)))
              [] format_type = "full_with_tz" ->
                    stamp(year, month, day, int(9, 10), int(11, 12), int(13, 14),
                          convert_tz_offset(SubSeq(value, 15, 19)))
              [] format_type = "full_with_tz_fraction" ->
                    stamp(year, month, day, int(9, 10), int(11, 12), int(13, 14),
                          "." \o normalize_fraction(SubSeq(value, 16, n - 5))
                          \o convert_tz_offset(SubSeq(value, n - 4, n)))
    IN  convert(int(1, 4), int(5, 6), int(7, 8))

parse_hl7_timestamp(raw_value, assume_utc) ==
    LET matched(value, format_type) ==
            IF format_type # "" THEN convert_matched_timestamp(value, format_type, assume_utc)
            ELSE Raised(InvalidTimestampError(value,
                                              "does not match any known HL7 timestamp format"))
        stripped(value) == IF value = "" THEN Returned(None)
                           ELSE matched(value, match_format(value))
    IN  stripped(strip(raw_value))

\* int(s) as parse_hl7_date uses it: surrounding whitespace and one sign are
\* accepted; None when int() raises ValueError
py_int(s) ==
    LET digits(sign, body) ==
            IF body = "" \/ ~AllDigits(body) THEN None
            ELSE Some(IF sign = "-" THEN 0 - DigitsToInt(body) ELSE DigitsToInt(body))
        stripped(t) ==
            IF t # "" /\ CharAt(t, 1) \in {"+", "-"}
            THEN digits(CharAt(t, 1), SubSeq(t, 2, Len(t)))
            ELSE digits("", t)
    IN  stripped(strip(s))

parse_hl7_date(raw_value) ==
    LET date_only(value, y, m, d) ==
            LET validated(e) ==
                    IF e # None THEN Raised(InvalidTimestampError(value, e[1]))
                    ELSE Returned(Some(Fmt(y[1], 4) \o "-" \o Fmt(m[1], 2)
                                       \o "-" \o Fmt(d[1], 2)))
                invalid(piece) ==
                    Raised(InvalidTimestampError(value,
                        "invalid literal for int() with base 10: '" \o piece \o "'"))
            IN  IF y = None THEN invalid(SubSeq(value, 1, 4))
                ELSE IF m = None THEN invalid(SubSeq(value, 5, 6))
                ELSE IF d = None THEN invalid(SubSeq(value, 7, 8))
                ELSE validated(validate_date(y[1], m[1], d[1]))
        general(r) ==
            IF r.error # None THEN r
            ELSE IF r.value = None THEN Returned(None)
            ELSE IF Len(r.value[1]) >= 10 THEN Returned(Some(SubSeq(r.value[1], 1, 10)))
            ELSE r
        stripped(value) ==
            IF value = "" THEN Returned(None)
            ELSE IF Len(value) = 8
            THEN date_only(value, py_int(SubSeq(value, 1, 4)), py_int(SubSeq(value, 5, 6)),
                           py_int(SubSeq(value, 7, 8)))
            ELSE general(parse_hl7_timestamp(value, FALSE))
    IN  stripped(strip(raw_value))

(***************************************************************************)
(* models.py                                                               *)
(***************************************************************************)
\* x or None
OrNone(x) == IF x = "" THEN None ELSE Some(x)

Patient(id, first_name, last_name, dob, gender) ==
    [id |-> id, first_name |-> first_name, last_name |-> last_name, dob |-> dob,
     gender |-> gender]

Provider(id, name) == [id |-> id, name |-> name]

Appointment(appointment_id, appointment_datetime, patient, provider, location, reason, message_control_id, message_datetime) ==
    [appointment_id |-> appointment_id, appointment_datetime |-> appointment_datetime,
     patient |-> patient, provider |-> provider, location |-> location, reason |-> reason,
     message_control_id |-> message_control_id, message_datetime |-> message_datetime]

ParseResult(appointment, warnings, source_message_index) ==
    [appointment |-> appointment, warnings |-> warnings,
     source_message_index |-> source_message_index]

(***************************************************************************)
(* extractors.py: every extractor holds the tokenizer's delimiters d       *)
(***************************************************************************)
\* try: return parse(...) except Exception: the error is dropped
Swallow(r) == IF r.error # None THEN None ELSE r.value

\* MSHExtractor.extract_message_type: <<message_type, trigger_event>>
extract_message_type(d, seg) ==
    LET of_components(components) ==
            <<components[1], IF Len(components) > 1 THEN components[2] ELSE "">>
        of_field(msg_type_field) ==
            IF msg_type_field = "" THEN <<"", "">>
            ELSE of_components(split(msg_type_field, d.component))
    IN  of_field(get_field(seg, 9, ""))

extract_control_id(d, seg) == get_field(seg, 10, "")

extract_timestamp(d, seg) ==
    LET of_field(raw_ts) ==
            IF raw_ts = "" THEN None ELSE Swallow(parse_hl7_timestamp(raw_ts, TRUE))
    IN  of_field(get_field(seg, 7, ""))

\* SCHExtractor
\* (mutant: the placer id is tried before the filler id)
extract_appointment_id_placer_first(d, seg) ==
    LET or_filler(placer_id) ==
            IF placer_id # "" THEN placer_id ELSE get_component(seg, 2, 0, d.component, "")
    IN  or_filler(get_component(seg, 1, 0, d.component, ""))

extract_appointment_id(d, seg) ==
    LET or_placer(filler_id) ==
            IF filler_id # "" THEN filler_id ELSE get_component(seg, 1, 0, d.component, "")
    IN  or_placer(get_component(seg, 2, 0, d.component, ""))

\* one pass of the loop of extract_appointment_datetime: the values the field
\* offers to parse_hl7_timestamp, in the order they are tried
timing_candidates(d, seg, field_index) ==
    LET of_components(components) ==
            (IF Len(components) > 3 /\ components[4] # "" THEN <<components[4]>> ELSE <<>>)
            \o (IF components[1] # "" THEN <<components[1]>> ELSE <<>>)
        of_field(timing_field) ==
            IF timing_field = "" THEN <<>>
            ELSE of_components(split(timing_field, d.component))
    IN  of_field(get_field(seg, field_index, ""))

\* try: return parse_hl7_timestamp(...) except Exception: pass, over the
\* candidates in order: what the first call that does not raise returns
RECURSIVE first_timestamp(_)
first_timestamp(candidates) ==
    LET tried(r) == IF r.error = None THEN r.value ELSE first_timestamp(Tail(candidates))
    IN  IF Len(candidates) = 0 THEN None
        ELSE tried(parse_hl7_timestamp(candidates[1], TRUE))

extract_appointment_datetime(d, seg) ==
    first_timestamp(timing_candidates(d, seg, 10) \o timing_candidates(d, seg, 11))

\* the loop of extract_reason over the fields still to try
RECURSIVE reason_from(_, _, _)
reason_from(d, seg, field_indexes) ==
    LET next == reason_from(d, seg, Tail(field_indexes))
        of_components(components) ==
            IF Len(components) > 1 /\ components[2] # "" THEN strip(components[2])
            ELSE IF components[1] # "" THEN strip(components[1])
            ELSE next
        of_field(reason_field) ==
            IF reason_field = "" THEN next
            ELSE of_components(split(reason_field, d.component))
    IN  IF Len(field_indexes) = 0 THEN ""
        ELSE of_field(get_field(seg, field_indexes[1], ""))

extract_reason(d, seg) == reason_from(d, seg, <<6, 7>>)

sch_extract_location(d, seg) ==
    LET of_parts(location, parts) ==
            IF Len(parts) > 0 THEN join(" ", parts) ELSE strip(location)
        of_components(location, components) ==
            of_parts(location,
                     NonEmpty(StripAll(SubSeq(components, 1,
                                              IF Len(components) < 3 THEN Len(components)
                                              ELSE 3))))
        of_field(location) ==
            IF location = "" THEN ""
            ELSE of_components(location, split(location, d.component))
    IN  of_field(get_field(seg, 23, ""))

\* PIDExtractor
extract_patient_id(d, seg) ==
    LET of_field(id_field) ==
            IF id_field = "" THEN ""
            ELSE split(split(id_field, d.repetition)[1], d.component)[1]
    IN  of_field(get_field(seg, 3, ""))

\* <<given_name, family_name>>
extract_name(d, seg) ==
    LET of_components(components) ==
            <<IF Len(components) > 1 THEN components[2] ELSE "",
              split(components[1], d.subcomponent)[1]>>
        of_field(name_field) ==
            IF name_field = "" THEN <<"", "">>
            ELSE of_components(split(split(name_field, d.repetition)[1], d.component))
    IN  of_field(get_field(seg, 5, ""))

extract_dob(d, seg) ==
    LET of_field(dob_field) ==
            IF dob_field = "" THEN None ELSE Swallow(parse_hl7_date(dob_field))
    IN  of_field(get_field(seg, 7, ""))

extract_gender(d, seg) == get_field(seg, 8, "")

extract_patient(d, seg) ==
    LET named(name) ==
            Patient(extract_patient_id(d, seg), OrNone(name[1]), OrNone(name[2]),
                    extract_dob(d, seg), OrNone(extract_gender(d, seg)))
    IN  named(extract_name(d, seg))

\* PV1Extractor._extract_xcn_field: <<provider_id, provider_name>>
extract_xcn_field(d, seg, field_index) ==
    LET of_components(components) ==
            LET comp(i) == IF Len(components) > i THEN components[i + 1] ELSE ""
            IN  <<comp(0),
                  join(" ", NonEmpty(<<comp(5), comp(6), comp(2), comp(3), comp(1), comp(4)>>))>>
        of_field(field_value) ==
            IF field_value = "" THEN <<"", "">>
            ELSE of_components(split(split(field_value, d.repetition)[1], d.component))
    IN  of_field(get_field(seg, field_index, ""))

\* (mutant: the admitting doctor is tried before the attending doctor)
extract_provider_admitting_first(d, seg) ==
    LET provider(chosen) ==
            IF chosen[1] = "" /\ chosen[2] = "" THEN None
            ELSE Some(Provider(IF chosen[1] = "" THEN "UNKNOWN" ELSE chosen[1],
                               OrNone(chosen[2])))
        or_referring(attending) ==
            IF attending[1] # "" THEN attending ELSE extract_xcn_field(d, seg, 8)
        or_attending(admitting) ==
            IF admitting[1] # "" THEN admitting
            ELSE or_referring(extract_xcn_field(d, seg, 7))
    IN  provider(or_attending(extract_xcn_field(d, seg, 17)))

extract_provider(d, seg) ==
    LET provider(chosen) ==
            IF chosen[1] = "" /\ chosen[2] = "" THEN None
            ELSE Some(Provider(IF chosen[1] = "" THEN "UNKNOWN" ELSE chosen[1],
                               OrNone(chosen[2])))
        or_referring(admitting) ==
            IF admitting[1] # "" THEN admitting ELSE extract_xcn_field(d, seg, 8)
        or_admitting(attending) ==
            IF attending[1] # "" THEN attending
            ELSE or_referring(extract_xcn_field(d, seg, 17))
    IN  provider(or_admitting(extract_xcn_field(d, seg, 7)))

pv1_extract_location(d, seg) ==
    LET room_of(room_part) ==
            IF StartsWith(lower(room_part), "room") THEN room_part ELSE "Room " \o room_part
        of_components(components) ==
            LET comp(i) == IF Len(components) > i THEN components[i + 1] ELSE ""
            IN  join(" ", NonEmpty(<<comp(3), comp(0),
                                     IF comp(1) = "" THEN "" ELSE room_of(strip(comp(1))),
                                     IF comp(2) = "" THEN "" ELSE "Bed " \o comp(2)>>))
        of_field(location_field) ==
            IF location_field = "" THEN ""
            ELSE of_components(split(location_field, d.component))
    IN  of_field(get_field(seg, 3, ""))

(***************************************************************************)
(* parser.py                                                               *)
(***************************************************************************)
EXPECTED_MESSAGE_TYPE == "SIU"

EXPECTED_TRIGGER_EVENT == "S12"

\* segment_map.get(seg_type): the first segment of that type, or None
segment_map_get(segments, seg_type) ==
    LET hits == {i \in 1..Len(segments) : segments[i].segment_type = seg_type}
    IN  IF hits = {} THEN None
        ELSE Some(segments[CHOOSE i \in hits : \A j \in hits : i <= j])

\* (mutant: the trigger event is not checked)
validate_message_type_any_trigger(d, segments) ==
    LET expected == EXPECTED_MESSAGE_TYPE \o "^" \o EXPECTED_TRIGGER_EVENT
        check(message_type, trigger_event, actual) ==
            IF message_type # EXPECTED_MESSAGE_TYPE
            THEN Some(InvalidMessageTypeError(expected, actual))
            ELSE None
        of_type(mt) ==
            check(mt[1], mt[2], IF mt[2] # "" THEN mt[1] \o "^" \o mt[2] ELSE mt[1])
        of_header(msh) ==
            IF msh = None THEN Some(MissingSegmentError("MSH"))
            ELSE IF Len(msh[1].fields) < 3 \/ msh[1].fields[3] = ""
            THEN Some(MalformedSegmentError("MSH",
                                            "MSH segment missing required encoding characters"))
            ELSE of_type(extract_message_type(d, msh[1]))
    IN  of_header(segment_map_get(segments, "MSH"))

\* _validate_message_type: None, or the error it raises
validate_message_type(d, segments) ==
    LET expected == EXPECTED_MESSAGE_TYPE \o "^" \o EXPECTED_TRIGGER_EVENT
        check(message_type, trigger_event, actual) ==
            IF message_type # EXPECTED_MESSAGE_TYPE
            THEN Some(InvalidMessageTypeError(expected, actual))
            ELSE IF trigger_event # "" /\ trigger_event # EXPECTED_TRIGGER_EVENT
            THEN Some(InvalidMessageTypeError(expected, actual))
            ELSE None
        of_type(mt) ==
            check(mt[1], mt[2], IF mt[2] # "" THEN mt[1] \o "^" \o mt[2] ELSE mt[1])
        of_header(msh) ==
            IF msh = None THEN Some(MissingSegmentError("MSH"))
            ELSE IF Len(msh[1].fields) < 3 \/ msh[1].fields[3] = ""
            THEN Some(MalformedSegmentError("MSH",
                                            "MSH segment missing required encoding characters"))
            ELSE of_type(extract_message_type(d, msh[1]))
    IN  of_header(segment_map_get(segments, "MSH"))

SCH_WARNING == "SCH segment not found - appointment details may be incomplete"

PID_WARNING == "PID segment not found - patient information unavailable"

PV1_WARNING == "PV1 segment not found - provider information unavailable"

\* (mutant: no sentinel when the SCH segment is missing)
UNKNOWN_APPOINTMENT_ID_empty == ""

\* the appointment id of a message with no SCH segment
UNKNOWN_APPOINTMENT_ID == "UNKNOWN"

\* (mutant: a missing PV1 segment is a strict-mode error like the other two)
STRICT_SEGMENTS_all == {"SCH", "PID", "PV1"}

\* the segments whose absence raises MissingSegmentError in strict mode
STRICT_SEGMENTS == {"SCH", "PID"}

\* the extraction and assembly of _parse_single_message, after validation
assemble(d, strict_mode, segments, message_index) ==
    LET missing(seg, seg_type) == seg = None /\ strict_mode /\ seg_type \in STRICT_SEGMENTS
        located(sch, pv1, sch_location) ==
            IF pv1 # None /\ sch_location = "" THEN pv1_extract_location(d, pv1[1])
            ELSE sch_location
        of_segments(msh, sch, pid, pv1) ==
            IF missing(sch, "SCH") THEN Raised(MissingSegmentError("SCH"))
            ELSE IF missing(pid, "PID") THEN Raised(MissingSegmentError("PID"))
            ELSE IF missing(pv1, "PV1") THEN Raised(MissingSegmentError("PV1"))
            ELSE Returned(ParseResult(
                     Appointment(
                         IF sch # None THEN extract_appointment_id(d, sch[1])
                         ELSE UNKNOWN_APPOINTMENT_ID,
                         IF sch # None THEN extract_appointment_datetime(d, sch[1]) ELSE None,
                         IF pid # None THEN Some(extract_patient(d, pid[1])) ELSE None,
                         IF pv1 # None THEN extract_provider(d, pv1[1]) ELSE None,
                         OrNone(located(sch, pv1,
                                        IF sch # None THEN sch_extract_location(d, sch[1])
                                        ELSE "")),
                         OrNone(IF sch # None THEN extract_reason(d, sch[1]) ELSE ""),
                         IF msh # None THEN Some(extract_control_id(d, msh[1])) ELSE None,
                         IF msh # None THEN extract_timestamp(d, msh[1]) ELSE None),
                     (IF sch = None THEN <<SCH_WARNING>> ELSE <<>>)
                     \o (IF pid = None THEN <<PID_WARNING>> ELSE <<>>)
                     \o (IF pv1 = None THEN <<PV1_WARNING>> ELSE <<>>),
                     message_index))
    IN  of_segments(segment_map_get(segments, "MSH"), segment_map_get(segments, "SCH"),
                    segment_map_get(segments, "PID"), segment_map_get(segments, "PV1"))

\* (mutant: the segments required in strict mode are looked for before the
\* message type is validated)
parse_single_message_segments_first(d, strict_mode, message_text, message_index) ==
    LET outcome(d2, r) == [delimiters |-> d2, value |-> r.value, error |-> r.error]
        assembled(tok, bad, r) ==
            IF r.error # None \/ bad = None THEN outcome(tok.delimiters, r)
            ELSE [delimiters |-> tok.delimiters, value |-> None, error |-> bad]
        validated(tok, bad) ==
            assembled(tok, bad,
                      assemble(tok.delimiters, strict_mode, tok.segments, message_index))
        tokenized(tok) ==
            IF tok.error # None
            THEN [delimiters |-> tok.delimiters, value |-> None, error |-> tok.error]
            ELSE IF Len(tok.segments) = 0
            THEN [delimiters |-> tok.delimiters, value |-> None,
                  error |-> Some(MalformedSegmentError("",
                                                       "Message contains no valid segments"))]
            ELSE validated(tok, validate_message_type(tok.delimiters, tok.segments))
    IN  tokenized(tokenize(d, message_text))

\* SIUParser._parse_single_message on a parser whose tokenizer holds d: the
\* tokenizer's delimiters afterwards and the ParseResult returned or error raised
parse_single_message(d, strict_mode, message_text, message_index) ==
    LET outcome(d2, r) == [delimiters |-> d2, value |-> r.value, error |-> r.error]
        validated(tok, bad) ==
            IF bad # None THEN [delimiters |-> tok.delimiters, value |-> None, error |-> bad]
            ELSE outcome(tok.delimiters,
                         assemble(tok.delimiters, strict_mode, tok.segments, message_index))
        tokenized(tok) ==
            IF tok.error # None
            THEN [delimiters |-> tok.delimiters, value |-> None, error |-> tok.error]
            ELSE IF Len(tok.segments) = 0
            THEN [delimiters |-> tok.delimiters, value |-> None,
                  error |-> Some(MalformedSegmentError("",
                                                       "Message contains no valid segments"))]
            ELSE validated(tok, validate_message_type(tok.delimiters, tok.segments))
    IN  tokenized(tokenize(d, message_text))

\* (mutant: every result carries index 0)
RECURSIVE ParseLoop_index0(_, _, _, _, _)
ParseLoop_index0(d, strict_mode, messages, idx, results) ==
    LET parsed(r) ==
            IF r.error # None
            THEN [delimiters |-> r.delimiters, results |-> <<>>, error |-> r.error]
            ELSE ParseLoop_index0(r.delimiters, strict_mode, messages, idx + 1,
                                  Append(results, r.value))
    IN  IF idx >= Len(messages) THEN [delimiters |-> d, results |-> results, error |-> None]
        ELSE parsed(parse_single_message(d, strict_mode, messages[idx + 1], 0))

\* (mutant: a failing message is skipped and the others are returned)
RECURSIVE ParseLoop_skip_failed(_, _, _, _, _)
ParseLoop_skip_failed(d, strict_mode, messages, idx, results) ==
    LET parsed(r) ==
            ParseLoop_skip_failed(r.delimiters, strict_mode, messages, idx + 1,
                                  IF r.error # None THEN results ELSE Append(results, r.value))
    IN  IF idx >= Len(messages) THEN [delimiters |-> d, results |-> results, error |-> None]
        ELSE parsed(parse_single_message(d, strict_mode, messages[idx + 1], idx))

\* the loop of SIUParser.parse over the messages, from message idx (0-based)
RECURSIVE ParseLoop(_, _, _, _, _)
ParseLoop(d, strict_mode, messages, idx, results) ==
    LET parsed(r) ==
            IF r.error # None
            THEN [delimiters |-> r.delimiters, results |-> <<>>, error |-> r.error]
            ELSE ParseLoop(r.delimiters, strict_mode, messages, idx + 1,
                           Append(results, r.value))
    IN  IF idx >= Len(messages) THEN [delimiters |-> d, results |-> results, error |-> None]
        ELSE parsed(parse_single_message(d, strict_mode, messages[idx + 1], idx))

\* SIUParser.parse: the tokenizer's delimiters afterwards, the list returned
\* (empty when an error is raised) and the error raised
parse(d, strict_mode, content) ==
    IF strip(content) = "" THEN [delimiters |-> d, results |-> <<>>, error |-> None]
    ELSE ParseLoop(d, strict_mode, split_hl7_messages(content), 0, <<>>)

(***************************************************************************)
(* Inputs.  A call's argument is described by the messages it is made of   *)
(* and the line-ending style it is written in; Render gives its text.      *)
(* A message is a header (an index of Headers, 0 for none) and, for each   *)
(* of SCH, PID and PV1, 0 (absent) or the index of a line.                 *)
(***************************************************************************)
MaxMsgs == 2

\* a header line with the given separators (field, then the four encoding
\* characters), message type field and control id
Header(enc, f9, ctrl) ==
    LET F == CharAt(enc, 1)
    IN  "MSH" \o enc \o F \o "SND" \o F \o "FAC" \o F \o F \o "RCV" \o F \o "20250502"
        \o F \o F \o f9 \o F \o ctrl \o F \o "P" \o F \o "2.5"

DEFAULT_ENC == "|^~\\&"

CUSTOM_ENC == "#*!\\$"

\* gate: the first gate of the parser the header is expected to fail ("pass" if none)
Hdr(line, enc, type, trigger, ctrl, gate) ==
    [line |-> line, enc |-> enc, type |-> type, trigger |-> trigger, ctrl |-> ctrl,
     gate |-> gate]

Headers ==
    << Hdr(Header(DEFAULT_ENC, "SIU^S12", "1"), DEFAULT_ENC, "SIU", "S12", "1", "pass"),
       Hdr(Header(DEFAULT_ENC, "SIU", "2"), DEFAULT_ENC, "SIU", "", "2", "pass"),
       Hdr(Header(CUSTOM_ENC, "SIU*S12", "3"), CUSTOM_ENC, "SIU", "S12", "3", "pass"),
       Hdr(Header(DEFAULT_ENC, "ADT^A01", "4"), DEFAULT_ENC, "ADT", "A01", "4", "type"),
       Hdr("MSH*^~", DEFAULT_ENC, "", "", "", "type"),
       Hdr("MSH1^~\\&|", DEFAULT_ENC, "", "", "", "delimiters"),
       Hdr(Header(DEFAULT_ENC, "SIU^", "7"), DEFAULT_ENC, "SIU", "", "7", "pass"),
       Hdr(Header(DEFAULT_ENC, "SIU^S14", "8"), DEFAULT_ENC, "SIU", "S14", "8", "type"),
       Hdr(Header(DEFAULT_ENC, "ADT", "9"), DEFAULT_ENC, "ADT", "", "9", "type"),
       Hdr(Header(DEFAULT_ENC, "", "10"), DEFAULT_ENC, "", "", "10", "type"),
       Hdr("MSH|^~\\&|SND", DEFAULT_ENC, "", "", "", "type"),
       Hdr(Header(DEFAULT_ENC, "^S12", "12"), DEFAULT_ENC, "", "S12", "12", "type"),
       Hdr(Header(DEFAULT_ENC, "siu^S12", "13"), DEFAULT_ENC, "siu", "S12", "13", "type"),
       Hdr(Header(DEFAULT_ENC, "SIU^S12^SIU_S12", "14"), DEFAULT_ENC, "SIU", "S12", "14", "pass"),
       Hdr(Header("|#~\\&", "SIU^S12", "15"), "|#~\\&", "SIU^S12", "", "15", "type"),
       Hdr("MSH|", DEFAULT_ENC, "", "", "", "structure"),
       Hdr("MSH", DEFAULT_ENC, "", "", "", "structure"),
       Hdr("MSH|^^\\&|SND", DEFAULT_ENC, "", "", "", "delimiters"),
       Hdr("MSH ^~\\&", DEFAULT_ENC, "", "", "", "delimiters") >>

\* the body lines, written with the default separators, and what a parser
\* is expected to extract from each
SCH_LINES ==
    << [line |-> "SCH|PL123|AP456|||||CONSULT^General Consultation||||20250502140000||||||||||||Clinic A^Room 203",
        appointment_id |-> "AP456", appointment_datetime |-> "2025-05-02T14:00:00Z",
        reason |-> "General Consultation"],
       [line |-> "SCH|PL9|AP9|||||FU^Follow up||||202512311830",
        appointment_id |-> "AP9", appointment_datetime |-> "2025-12-31T18:30:00Z",
        reason |-> "Follow up"] >>

PID_LINES ==
    << [line |-> "PID|1||P12345^^^HOSP||Doe^John^M||19850210|M",
        id |-> "P12345", first_name |-> "John", last_name |-> "Doe", dob |-> "1985-02-10",
        gender |-> "M"],
       [line |-> "PID|1||P999~ALT1||Roe&van^Jane||20000229|F",
        id |-> "P999", first_name |-> "Jane", last_name |-> "Roe", dob |-> "2000-02-29",
        gender |-> "F"] >>

PV1_LINES ==
    << [line |-> "PV1|1|O|CLINIC^101^^MainHospital||||D67890^Smith^Jane^^Dr.",
        id |-> "D67890", given |-> "Jane", family |-> "Smith"],
       [line |-> "PV1|1|O|||||D1^Brown^Bob",
        id |-> "D1", given |-> "Bob", family |-> "Brown"] >>

Msg(header, sch, pid, pv1) == [header |-> header, sch |-> sch, pid |-> pid, pv1 |-> pv1]

\* a line written with the default separators, rewritten with those of enc
RECURSIVE Recode(_, _)
Recode(line, enc) ==
    IF Len(line) = 0 THEN ""
    ELSE IF Len(line) = 1
    THEN LET at == {i \in 1..5 : CharAt(DEFAULT_ENC, i) = line}
         IN  IF at = {} THEN line ELSE CharAt(enc, CHOOSE i \in at : TRUE)
    ELSE LET h == Len(line) \div 2
         IN  Recode(SubSeq(line, 1, h), enc) \o Recode(SubSeq(line, h + 1, Len(line)), enc)

MessageLines(m) ==
    LET body(enc) ==
            (IF m.sch = 0 THEN <<>> ELSE <<Recode(SCH_LINES[m.sch].line, enc)>>)
            \o (IF m.pid = 0 THEN <<>> ELSE <<Recode(PID_LINES[m.pid].line, enc)>>)
            \o (IF m.pv1 = 0 THEN <<>> ELSE <<Recode(PV1_LINES[m.pv1].line, enc)>>)
        with_header(header) == <<header.line>> \o body(header.enc)
    IN  IF m.header = 0 THEN body(DEFAULT_ENC) ELSE with_header(Headers[m.header])

BlankTexts == <<"", "   ", "\n\n", "\r\n \t\r">>

LineEnd(style) == IF style = 1 THEN "\n" ELSE "\r\n"

RECURSIVE RenderMsgs(_, _)
RenderMsgs(msgs, style) ==
    IF Len(msgs) = 0 THEN <<>>
    ELSE <<join(LineEnd(style), MessageLines(msgs[1]))>> \o RenderMsgs(Tail(msgs), style)

Render(in) ==
    IF Len(in.msgs) = 0 THEN BlankTexts[in.style]
    ELSE join(IF in.style = 1 THEN "\n" ELSE "\r\n\r\n", RenderMsgs(in.msgs, in.style))

Input(msgs, style) == [msgs |-> msgs, style |-> style]

BlankInputs == {Input(<<>>, s) : s \in 1..Len(BlankTexts)}

\* one message per call: every body under the sample header and the custom
\* header, the other headers with no body and with a full one, and text
\* with no header line at all
SingleMessages ==
    {Msg(h, s, p, v) : h \in {1, 3}, s \in 0..2, p \in 0..2, v \in 0..2}
    \cup {Msg(h, 0, 0, 0) : h \in 1..Len(Headers)}
    \cup {Msg(h, 1, 1, 1) : h \in {2, 4, 7, 8, 9, 10, 12, 13, 14, 15}}
    \cup {Msg(0, 1, 1, 0), Msg(0, 0, 2, 0)}

SingleInputs == BlankInputs \cup {Input(<<m>>, 1 + (m.header % 2)) : m \in SingleMessages}

\* several messages per call, from a small pool
Pool ==
    << Msg(1, 1, 1, 1), Msg(2, 0, 0, 0), Msg(3, 2, 2, 0), Msg(4, 0, 1, 0), Msg(5, 0, 0, 0),
       Msg(6, 0, 0, 0) >>

RECURSIVE SeqsUpTo(_, _)
SeqsUpTo(S, n) ==
    IF n = 0 THEN {<<>>}
    ELSE LET shorter == SeqsUpTo(S, n - 1)
         IN  shorter \cup {Append(q, x) : q \in shorter, x \in S}

MultiInputs ==
    {Input(q, IF Len(q) = 0 THEN 1 ELSE 1 + (Len(q) % 2)) :
        q \in SeqsUpTo({Pool[i] : i \in 1..Len(Pool)}, MaxMsgs)}

(***************************************************************************)
(* The state: one SIUParser (its strict flag and the delimiters of its     *)
(* tokenizer) and the last call made on it, with what the call returned    *)
(* or raised.                                                              *)
(***************************************************************************)
VARIABLES strict_mode, delimiters, op, input, content, results, segments, error

vars == <<strict_mode, delimiters, op, input, content, results, segments, error>>

\* no call observed
Idle ==
    /\ op = "idle"
    /\ input = Input(<<>>, 1)
    /\ content = ""
    /\ results = <<>>
    /\ segments = <<>>
    /\ error = None

\* SIUParser(strict_mode): a fresh tokenizer with the default delimiters
Init ==
    /\ strict_mode \in BOOLEAN
    /\ delimiters = Delimiters
    /\ Idle

\* parser.parse(content)
Parse(in) ==
    LET returned(text, r) ==
            /\ op = "idle"
            /\ op' = "parse"
            /\ input' = in
            /\ content' = text
            /\ delimiters' = r.delimiters
            /\ results' = r.results
            /\ error' = r.error
            /\ segments' = <<>>
            /\ UNCHANGED strict_mode
        called(text) == returned(text, parse(delimiters, strict_mode, text))
    IN  called(Render(in))

\* parser.tokenizer.tokenize(message_text)
Tokenize(in) ==
    LET returned(text, r) ==
            /\ op = "idle"
            /\ op' = "tokenize"
            /\ input' = in
            /\ content' = text
            /\ delimiters' = r.delimiters
            /\ segments' = r.segments
            /\ error' = r.error
            /\ results' = <<>>
            /\ UNCHANGED strict_mode
        called(text) == returned(text, tokenize(delimiters, text))
    IN  called(Render(in))

\* the caller drops what the last call returned or raised; the parser stays as it is
Forget ==
    /\ op # "idle"
    /\ op' = "idle"
    /\ input' = Input(<<>>, 1)
    /\ content' = ""
    /\ results' = <<>>
    /\ segments' = <<>>
    /\ error' = None
    /\ UNCHANGED <<strict_mode, delimiters>>

\* calls of parse with any number of messages up to MaxMsgs
Next ==
    \/ \E in \in MultiInputs : Parse(in)
    \/ Forget

Spec == Init /\ [][Next]_vars

\* calls of parse with at most one message
NextOne ==
    \/ \E in \in SingleInputs : Parse(in)
    \/ Forget

SpecOne == Init /\ [][NextOne]_vars

\* calls of the tokenizer on the text of at most one message
NextTok ==
    \/ \E in \in SingleInputs : Tokenize(in)
    \/ Forget

SpecTok == Init /\ [][NextTok]_vars

(***************************************************************************)
(* Calls of the functions that hold no state.  A call is observed in the   *)
(* same variables: op names the function, input describes its argument,    *)
(* results is what it returned and error what it raised.                   *)
(***************************************************************************)
\* split_hl7_messages(content): content is up to MaxLines lines separated
\* by one of the line-break styles
MaxLines == 3

\* the lines a content is made of, with what str.strip() leaves of each
SPLIT_LINES ==
    << [text |-> "MSH|1",     stripped |-> "MSH|1"],
       [text |-> "  MSH|2\t", stripped |-> "MSH|2"],
       [text |-> "PID|a",     stripped |-> "PID|a"],
       [text |-> " PV1|b ",   stripped |-> "PV1|b"],
       [text |-> "",          stripped |-> ""],
       [text |-> " \t",       stripped |-> ""],
       [text |-> "XMSH|3",    stripped |-> "XMSH|3"] >>

\* the line breaks of a content, used in turn: LF, CRLF, CR, CRLF and CR, LF CR
LINE_BREAK_STYLES == << <<"\n">>, <<"\r\n">>, <<"\r">>, <<"\r\n", "\r">>, <<"\n\r">> >>

\* the line break after line i
LineBreak(style, i) ==
    LET turn(breaks) == breaks[((i - 1) % Len(breaks)) + 1]
    IN  turn(LINE_BREAK_STYLES[style])

RECURSIVE SplitContent(_, _, _)
SplitContent(lines, style, i) ==
    IF i > Len(lines) THEN ""
    ELSE SPLIT_LINES[lines[i]].text
         \o (IF i < Len(lines) THEN LineBreak(style, i) ELSE "")
         \o SplitContent(lines, style, i + 1)

SplitInputs ==
    {[lines |-> q, style |-> st] :
        q \in SeqsUpTo(1..Len(SPLIT_LINES), MaxLines), st \in 1..Len(LINE_BREAK_STYLES)}

Split(in) ==
    LET returned(text, messages) ==
            /\ op = "idle"
            /\ op' = "split"
            /\ input' = in
            /\ content' = text
            /\ results' = messages
            /\ segments' = <<>>
            /\ error' = None
            /\ UNCHANGED <<strict_mode, delimiters>>
        called(text) == returned(text, split_hl7_messages(text))
    IN  called(SplitContent(in.lines, in.style, 1))

NextSplit ==
    \/ op = "idle" /\ \E in \in SplitInputs : Split(in)
    \/ Forget

SpecSplit == Init /\ [][NextSplit]_vars

\* Segment.get_field, get_component and get_subcomponent: the indices run
\* from -1 (negative) to MaxIndex (past the end of every list below)
MaxIndex == 3

\* the fields of the segments, with the component and subcomponent separators
\* the accessors are given
SEGMENT_FIELDS ==
    << [fields |-> <<"PID", "1", "", "a^b&c^^&d&&e">>, component_sep |-> "^", subcomponent_sep |-> "&"],
       [fields |-> <<"PV1", "x*y$z**$", "^&">>, component_sep |-> "*", subcomponent_sep |-> "$"],
       [fields |-> <<"ZZZ">>, component_sep |-> "^", subcomponent_sep |-> "&"],
       [fields |-> <<>>, component_sep |-> "^", subcomponent_sep |-> "&"] >>

SEGMENT_DEFAULTS == {"", "N/A"}

Indices == (0 - 1)..MaxIndex

\* the Segment object of an entry of SEGMENT_FIELDS
SegmentOf(k) ==
    LET made(fields) == Segment(IF Len(fields) = 0 THEN "" ELSE fields[1], fields, join("|", fields))
    IN  made(SEGMENT_FIELDS[k].fields)

AccessInputs ==
    {[seg |-> k, field_index |-> f, component_index |-> c, subcomponent_index |-> s, default |-> d] :
        k \in 1..Len(SEGMENT_FIELDS), f \in Indices, c \in Indices, s \in Indices,
        d \in SEGMENT_DEFAULTS}

\* a call of an accessor returned value
Accessed(name, in, seg, value) ==
    /\ op = "idle"
    /\ op' = name
    /\ input' = in
    /\ content' = seg.raw_text
    /\ results' = <<value>>
    /\ segments' = <<seg>>
    /\ error' = None
    /\ UNCHANGED <<strict_mode, delimiters>>

\* segment.get_field(index, default)
GetField(in) ==
    LET of(seg) == Accessed("get_field", in, seg, get_field(seg, in.field_index, in.default))
    IN  in.component_index = 0 /\ in.subcomponent_index = 0 /\ of(SegmentOf(in.seg))

\* segment.get_component(field_index, component_index, separator, default)
GetComponent(in) ==
    LET of(seg) ==
            Accessed("get_component", in, seg,
                     get_component(seg, in.field_index, in.component_index,
                                   SEGMENT_FIELDS[in.seg].component_sep, in.default))
    IN  in.subcomponent_index = 0 /\ of(SegmentOf(in.seg))

\* segment.get_subcomponent(field_index, component_index, subcomponent_index,
\*                          component_sep, subcomponent_sep, default)
GetSubcomponent(in) ==
    LET of(seg) ==
            Accessed("get_subcomponent", in, seg,
                     get_subcomponent(seg, in.field_index, in.component_index,
                                      in.subcomponent_index,
                                      SEGMENT_FIELDS[in.seg].component_sep,
                                      SEGMENT_FIELDS[in.seg].subcomponent_sep, in.default))
    IN  of(SegmentOf(in.seg))

NextSeg ==
    \/ op = "idle" /\ \E in \in AccessInputs : GetField(in)
    \/ op = "idle" /\ \E in \in AccessInputs : GetComponent(in)
    \/ op = "idle" /\ \E in \in AccessInputs : GetSubcomponent(in)
    \/ Forget

SpecSeg == Init /\ [][NextSeg]_vars

\* the raw_text of each segment
RECURSIVE RawTexts(_)
RawTexts(segs) == IF Len(segs) = 0 THEN <<>> ELSE <<segs[1].raw_text>> \o RawTexts(Tail(segs))

LINE_BREAKS == {"\n", "\r\n", "\r"}

\* parser.tokenizer.tokenize(br.join(s.raw_text for s in segments)) on the
\* segments the last call of tokenize returned: results keeps those segments
Retokenize(br) ==
    LET returned(text, r) ==
            /\ op = "tokenize"
            /\ error = None
            /\ op' = "retokenize"
            /\ content' = text
            /\ delimiters' = r.delimiters
            /\ segments' = r.segments
            /\ error' = r.error
            /\ results' = segments
            /\ UNCHANGED <<strict_mode, input>>
        called(text) == returned(text, tokenize(delimiters, text))
    IN  called(join(br, RawTexts(segments)))

\* calls of the tokenizer on a text and on the text rebuilt from its segments
NextRetok ==
    \/ \E in \in SingleInputs : Tokenize(in)
    \/ \E br \in LINE_BREAKS : Retokenize(br)
    \/ Forget

SpecRetok == Init /\ [][NextRetok]_vars

\* parse_hl7_timestamp(value, assume_utc) and parse_hl7_date(value): a value is
\* the components of one of the six precision levels, then a fraction, then
\* an offset, or one of the raw values below
TIME_PARTS ==
    << {"1900", "2024", "2025"}, {"00", "02", "12", "13"}, {"00", "29", "30", "31", "32"},
       {"00", "23", "24"}, {"00", "60"}, {"59", "60"} >>

\* what follows the digits, and the whitespace around the value
TIME_SUFFIXES ==
    << [fraction |-> "",      offset |-> "",      pad |-> ""],
       [fraction |-> "",      offset |-> "",      pad |-> "  "],
       [fraction |-> ".5",    offset |-> "",      pad |-> ""],
       [fraction |-> ".1234", offset |-> "",      pad |-> ""],
       [fraction |-> "",      offset |-> "+0000", pad |-> ""],
       [fraction |-> "",      offset |-> "-0000", pad |-> ""],
       [fraction |-> "",      offset |-> "+0530", pad |-> ""],
       [fraction |-> "",      offset |-> "-0800", pad |-> ""],
       [fraction |-> "",      offset |-> "Z",     pad |-> ""],
       [fraction |-> ".5",    offset |-> "+0530", pad |-> ""],
       [fraction |-> ".1234", offset |-> "-0000", pad |-> ""] >>

RAW_TIME_VALUES == {"", "   ", "not-a-timestamp", "2025 1 1", "2025+1-1", "20250502T1400", "202"}

\* the component lists of precision level p: year, month, day, hour, minute, second
RECURSIVE PartsOf(_)
PartsOf(p) == IF p = 0 THEN {<<>>} ELSE {Append(q, x) : q \in PartsOf(p - 1), x \in TIME_PARTS[p]}

TimeInputs ==
    {[parts |-> q, suffix |-> k, assume_utc |-> u] :
        q \in UNION {PartsOf(p) : p \in 1..Len(TIME_PARTS)}, k \in 1..Len(TIME_SUFFIXES),
        u \in BOOLEAN}
    \cup {[raw |-> r, assume_utc |-> u] : r \in RAW_TIME_VALUES, u \in BOOLEAN}

IsComposed(in) == "parts" \in DOMAIN in

\* the value argument of an input
TimeValue(in) ==
    LET composed(sfx) == sfx.pad \o join("", in.parts) \o sfx.fraction \o sfx.offset \o sfx.pad
    IN  IF IsComposed(in) THEN composed(TIME_SUFFIXES[in.suffix]) ELSE in.raw

\* a call of a timestamp function returned or raised r
TimeCalled(name, in, value, r) ==
    /\ op = "idle"
    /\ op' = name
    /\ input' = in
    /\ content' = value
    /\ results' = r.value
    /\ error' = r.error
    /\ segments' = <<>>
    /\ UNCHANGED <<strict_mode, delimiters>>

\* parse_hl7_timestamp(value, assume_utc)
ParseTimestamp(in) ==
    LET called(value) ==
            TimeCalled("parse_hl7_timestamp", in, value, parse_hl7_timestamp(value, in.assume_utc))
    IN  called(TimeValue(in))

\* parse_hl7_date(value)
ParseDate(in) ==
    LET called(value) == TimeCalled("parse_hl7_date", in, value, parse_hl7_date(value))
    IN  ~in.assume_utc /\ called(TimeValue(in))

\* the offsets given to _convert_tz_offset, with their ISO 8601 form
TZ_SIGNS == {"+", "-"}

TZ_HOURS == {"00", "05", "14", "23"}

TZ_MINUTES == {"00", "30", "45"}

OffsetInputs ==
    {[hl7 |-> s \o h \o m, iso |-> s \o h \o ":" \o m] :
        s \in TZ_SIGNS, h \in TZ_HOURS, m \in TZ_MINUTES}
    \cup {[hl7 |-> "Z", iso |-> "Z"], [hl7 |-> "", iso |-> "Z"]}

\* _convert_tz_offset(hl7_offset)
ConvertOffset(in) ==
    TimeCalled("convert_tz_offset", in, in.hl7, Returned(Some(convert_tz_offset(in.hl7))))

\* one call at a time: the inputs are drawn when no call is observed
NextTime ==
    \/ op = "idle" /\ \E in \in TimeInputs : ParseTimestamp(in)
    \/ op = "idle" /\ \E in \in TimeInputs : ParseDate(in)
    \/ op = "idle" /\ \E in \in OffsetInputs : ConvertOffset(in)
    \/ Forget

SpecTime == Init /\ [][NextTime]_vars

\* SCHExtractor.extract_appointment_id and PV1Extractor.extract_provider on
\* segments whose fields are written with the default separators below and
\* recoded with the encoding characters of the extractor's delimiters
PLACER_IDS ==
    << [value |-> "",       id |-> ""],
       [value |-> "PL123",  id |-> "PL123"],
       [value |-> "PL1^NS", id |-> "PL1"],
       [value |-> "^PNS",   id |-> ""] >>

FILLER_IDS ==
    << [value |-> "",          id |-> ""],
       [value |-> "AP456",     id |-> "AP456"],
       [value |-> "AP4^NS&x",  id |-> "AP4"],
       [value |-> "^FNS",      id |-> ""] >>

\* the doctors of PV1-7, PV1-8 and PV1-17, with the id and the display name
\* each field holds
ATTENDING ==
    << [value |-> "",                        id |-> "",       name |-> ""],
       [value |-> "D67890^Smith^Jane^^Dr.",  id |-> "D67890", name |-> "Jane Smith Dr."],
       [value |-> "^Grey^Meredith",          id |-> "",       name |-> "Meredith Grey"],
       [value |-> "D2~D3^Other",             id |-> "D2",     name |-> ""] >>

REFERRING ==
    << [value |-> "",            id |-> "",   name |-> ""],
       [value |-> "R1^Roe^Rita", id |-> "R1", name |-> "Rita Roe"],
       [value |-> "^Ref",        id |-> "",   name |-> "Ref"] >>

ADMITTING ==
    << [value |-> "",                          id |-> "",       name |-> ""],
       [value |-> "D11111^Jones^Bob^^^Dr.^MD", id |-> "D11111", name |-> "Dr. MD Bob Jones"],
       [value |-> "^Adm",                      id |-> "",       name |-> "Adm"] >>

\* Delimiters with the characters of an encoding string
DelimitersOf(enc) ==
    [field |-> CharAt(enc, 1), component |-> CharAt(enc, 2), repetition |-> CharAt(enc, 3),
     escape |-> CharAt(enc, 4), subcomponent |-> CharAt(enc, 5)]

\* fields without its trailing empty fields
RECURSIVE TrimFields(_)
TrimFields(fields) ==
    IF Len(fields) > 1 /\ fields[Len(fields)] = "" THEN TrimFields(SubSeq(fields, 1, Len(fields) - 1))
    ELSE fields

\* the segment of the line made of fields, as the tokenizer parses it
SegmentOfFields(fields, trimmed, enc) ==
    LET parsed(d, line) == parse_segment(d, Recode(line, enc))
    IN  parsed(DelimitersOf(enc), join("|", IF trimmed THEN TrimFields(fields) ELSE fields))

SchInputs ==
    {[placer |-> p, filler |-> f, trimmed |-> t, enc |-> e] :
        p \in 1..Len(PLACER_IDS), f \in 1..Len(FILLER_IDS), t \in BOOLEAN,
        e \in {DEFAULT_ENC, CUSTOM_ENC}}

Pv1Inputs ==
    {[attending |-> a, referring |-> r, admitting |-> m, trimmed |-> t, enc |-> e] :
        a \in 1..Len(ATTENDING), r \in 1..Len(REFERRING), m \in 1..Len(ADMITTING),
        t \in BOOLEAN, e \in {DEFAULT_ENC, CUSTOM_ENC}}

SchFields(in) == <<"SCH", PLACER_IDS[in.placer].value, FILLER_IDS[in.filler].value>>

Pv1Fields(in) ==
    <<"PV1", "1", "O", "", "", "", "", ATTENDING[in.attending].value,
      REFERRING[in.referring].value, "", "", "", "", "", "", "", "",
      ADMITTING[in.admitting].value>>

\* a call of an extractor on seg returned value
Extracted(name, in, seg, value) ==
    /\ op = "idle"
    /\ op' = name
    /\ input' = in
    /\ content' = seg.raw_text
    /\ results' = value
    /\ segments' = <<seg>>
    /\ error' = None
    /\ UNCHANGED <<strict_mode, delimiters>>

\* SCHExtractor(delimiters).extract_appointment_id(segment)
ExtractAppointmentId(in) ==
    LET of(seg) ==
            Extracted("extract_appointment_id", in, seg,
                      <<extract_appointment_id(DelimitersOf(in.enc), seg)>>)
    IN  of(SegmentOfFields(SchFields(in), in.trimmed, in.enc))

\* PV1Extractor(delimiters).extract_provider(segment)
ExtractProvider(in) ==
    LET of(seg) ==
            Extracted("extract_provider", in, seg, extract_provider(DelimitersOf(in.enc), seg))
    IN  of(SegmentOfFields(Pv1Fields(in), in.trimmed, in.enc))

NextExtract ==
    \/ op = "idle" /\ \E in \in SchInputs : ExtractAppointmentId(in)
    \/ op = "idle" /\ \E in \in Pv1Inputs : ExtractProvider(in)
    \/ Forget

SpecExtract == Init /\ [][NextExtract]_vars

\* SCHExtractor.extract_appointment_datetime: SCH-10 and SCH-11 are made of a
\* first component and a fourth component, each one of the values below; iso
\* is what parse_hl7_timestamp makes of the value, "" if it raises or returns
\* no value
TIMING_VALUES ==
    << [value |-> "",               iso |-> ""],
       [value |-> "20251302",       iso |-> ""],
       [value |-> " ",              iso |-> ""],
       [value |-> "2025050213",     iso |-> "2025-05-02T13:00:00Z"],
       [value |-> "20250502140000", iso |-> "2025-05-02T14:00:00Z"],
       [value |-> "202505021500",   iso |-> "2025-05-02T15:00:00Z"],
       [value |-> "20250502",       iso |-> "2025-05-02"] >>

\* the values each of the four places takes: SCH-10 component 3, SCH-10
\* component 0, SCH-11 component 3, SCH-11 component 0
TIMING_PLACES == << {1, 2, 3, 4}, {1, 2, 3, 5}, {1, 2, 3, 6}, {1, 2, 3, 7} >>

\* ^duration^units^start_datetime, or the first component alone
TimingField(first, start, plain) ==
    IF plain /\ start = "" THEN first ELSE first \o "^30^MIN^" \o start

TimingInputs ==
    {[places |-> <<a, b, c, e>>, plain |-> p, enc |-> x] :
        a \in TIMING_PLACES[1], b \in TIMING_PLACES[2], c \in TIMING_PLACES[3],
        e \in TIMING_PLACES[4], p \in BOOLEAN, x \in {DEFAULT_ENC, CUSTOM_ENC}}

TimingFields(in) ==
    LET v(k) == TIMING_VALUES[in.places[k]].value
    IN  <<"SCH", "PL123", "AP456", "", "", "", "", "", "", "",
          TimingField(v(2), v(1), in.plain), TimingField(v(4), v(3), in.plain), "", "X">>

\* SCHExtractor(delimiters).extract_appointment_datetime(segment)
ExtractAppointmentDatetime(in) ==
    LET of(seg) ==
            Extracted("extract_appointment_datetime", in, seg,
                      extract_appointment_datetime(DelimitersOf(in.enc), seg))
    IN  of(SegmentOfFields(TimingFields(in), FALSE, in.enc))

NextTiming ==
    \/ op = "idle" /\ \E in \in TimingInputs : ExtractAppointmentDatetime(in)
    \/ Forget

SpecTiming == Init /\ [][NextTiming]_vars

\* parser.parse(content) on one SIU^S12 message whose MSH-7, SCH-10, SCH-11
\* and PID-7 each hold one of the values below: iso and date are what a valid
\* value normalizes to, "" for a value that is unparseable or not a calendar
\* date or time
STAMP_VALUES ==
    << [value |-> "20250502130000", iso |-> "2025-05-02T13:00:00Z", date |-> "2025-05-02"],
       [value |-> "tomorrow",       iso |-> "",                     date |-> ""],
       [value |-> "2025023012",     iso |-> "",                     date |-> ""],
       [value |-> "202513",         iso |-> "",                     date |-> ""] >>

StampInputs ==
    {[msh7 |-> a, sch10 |-> b, sch11 |-> c, pid7 |-> e] :
        a \in 1..Len(STAMP_VALUES), b \in 1..Len(STAMP_VALUES), c \in 1..Len(STAMP_VALUES),
        e \in 1..Len(STAMP_VALUES)}

\* the text of the message
StampedMessage(in) ==
    "MSH|^~\\&|SND|FAC||RCV|" \o STAMP_VALUES[in.msh7].value \o "||SIU^S12|1|P|2.5\n"
    \o "SCH|PL123|AP456|||||CONSULT^General Consultation|||" \o STAMP_VALUES[in.sch10].value
    \o "|" \o STAMP_VALUES[in.sch11].value \o "\n"
    \o "PID|1||P12345^^^HOSP||Doe^John^M||" \o STAMP_VALUES[in.pid7].value \o "|M\n"
    \o "PV1|1|O|CLINIC^101^^MainHospital||||D67890^Smith^Jane^^Dr."

\* parser.parse(content)
ParseStamped(in) ==
    LET returned(text, r) ==
            /\ op = "idle"
            /\ op' = "parse"
            /\ input' = in
            /\ content' = text
            /\ delimiters' = r.delimiters
            /\ results' = r.results
            /\ error' = r.error
            /\ segments' = <<>>
            /\ UNCHANGED strict_mode
        called(text) == returned(text, parse(delimiters, strict_mode, text))
    IN  called(StampedMessage(in))

NextStamp ==
    \/ \E in \in StampInputs : ParseStamped(in)
    \/ Forget

SpecStamp == Init /\ [][NextStamp]_vars

\* PIDExtractor.extract_patient: PID-3 is one of the identifier lists below,
\* absent when the segment ends before it
PATIENT_IDS ==
    << [value |-> "",              present |-> FALSE],
       [value |-> "",              present |-> TRUE],
       [value |-> "P12345^^^HOSP", present |-> TRUE],
       [value |-> "P999~ALT1",     present |-> TRUE],
       [value |-> "P1&x^^^A~P2",   present |-> TRUE],
       [value |-> "^^^HOSP",       present |-> TRUE],
       [value |-> "~ALT1",         present |-> TRUE] >>

PATIENT_NAMES == <<"", "Doe^John^M", "Roe&van~Alias^A">>

PATIENT_DOBS == <<"", "19850315", "1985">>

PATIENT_GENDERS == <<"", "M">>

PidInputs ==
    {[id |-> i, name |-> n, dob |-> b, gender |-> g, enc |-> e] :
        i \in 1..Len(PATIENT_IDS), n \in 1..Len(PATIENT_NAMES), b \in 1..Len(PATIENT_DOBS),
        g \in 1..Len(PATIENT_GENDERS), e \in {DEFAULT_ENC, CUSTOM_ENC}}

PidFields(in) ==
    IF PATIENT_IDS[in.id].present
    THEN <<"PID", "1", "", PATIENT_IDS[in.id].value, "", PATIENT_NAMES[in.name], "",
           PATIENT_DOBS[in.dob], PATIENT_GENDERS[in.gender]>>
    ELSE <<"PID", "1">>

\* PIDExtractor(delimiters).extract_patient(segment)
ExtractPatient(in) ==
    LET of(seg) ==
            Extracted("extract_patient", in, seg, <<extract_patient(DelimitersOf(in.enc), seg)>>)
    IN  of(SegmentOfFields(PidFields(in), FALSE, in.enc))

NextPatient ==
    \/ op = "idle" /\ \E in \in PidInputs : ExtractPatient(in)
    \/ Forget

SpecPatient == Init /\ [][NextPatient]_vars

(***************************************************************************)
(* models.py: the dictionaries of to_dict.  A dictionary is a function     *)
(* whose domain is the set of its keys.                                    *)
(***************************************************************************)
\* Patient.to_dict: the fields that are not None
Patient_to_dict(p) ==
    LET present == {"id"} \cup {k \in {"first_name", "last_name", "dob", "gender"} : p[k] # None}
    IN  [k \in present |-> IF k = "id" THEN p.id ELSE p[k][1]]

\* Provider.to_dict: the fields that are not None
Provider_to_dict(p) ==
    LET present == {"id"} \cup {k \in {"name"} : p[k] # None}
    IN  [k \in present |-> IF k = "id" THEN p.id ELSE p[k][1]]

\* if self.<optional text field>
Truthy(x) == x # None /\ x[1] # ""

\* Appointment.to_dict: the fields that are truthy
Appointment_to_dict(a) ==
    LET texts == {"appointment_datetime", "location", "reason", "message_control_id",
                  "message_datetime"}
        present == {k \in {"appointment_id"} : a[k] # ""}
                   \cup {k \in {"patient", "provider"} : a[k] # None}
                   \cup {k \in texts : Truthy(a[k])}
    IN  [k \in present |->
            IF k = "appointment_id" THEN a.appointment_id
            ELSE IF k = "patient" THEN Patient_to_dict(a.patient[1])
            ELSE IF k = "provider" THEN Provider_to_dict(a.provider[1])
            ELSE a[k][1]]

(***************************************************************************)
(* io_handler.py and hl7_parser.py.  A file is a path that is missing, a   *)
(* directory, a file the process may not open, or a file whose content is  *)
(* the text of an input; utf8 says whether its bytes are well-formed       *)
(* UTF-8.  The files are shorter than one read of the text layer.          *)
(***************************************************************************)
ENCODINGS_TO_TRY == <<"utf-8", "latin-1", "cp1252", "ascii">>

\* the line that ends a file whose bytes are not UTF-8, up to the byte 0xFC
\* (written <FC> in the text the other encodings give)
LATIN_LINE == "NTE|1||M"

File(kind, path, msgs, style, utf8) ==
    [kind |-> kind, path |-> path, msgs |-> msgs, style |-> style, utf8 |-> utf8]

\* the text up to the first byte that is not UTF-8 (all of it if there is none)
FilePrefix(file) ==
    IF file.utf8 THEN Render(file) ELSE Render(file) \o LineEnd(file.style) \o LATIN_LINE

\* the content of the file decoded with an encoding that accepts its bytes
FileText(file) == IF file.utf8 THEN FilePrefix(file) ELSE FilePrefix(file) \o "<FC>ller"

\* whether the bytes of the file decode with the encoding: they are ASCII
\* apart from the byte 0xFC of a file that is not UTF-8
Decodes(file, encoding) == file.utf8 \/ encoding \in {"latin-1", "cp1252"}

FileReadError(filepath, reason) ==
    HL7ParseError("FileReadError", "Cannot read file '" \o filepath \o "': " \o reason, "")

\* exceptions of the interpreter, which are no HL7ParseError
UnicodeDecodeError(file) ==
    [kind |-> "UnicodeDecodeError", segment |-> "",
     text |-> "'utf-8' codec can't decode byte 0xfc in position "
              \o IntToStr(Len(FilePrefix(file))) \o ": invalid start byte"]

PermissionError(file) ==
    [kind |-> "PermissionError", segment |-> "",
     text |-> "[Errno 13] Permission denied: '" \o file.path \o "'"]

\* the checks on the path at the head of read_hl7_file and of stream_hl7_file
PathError(file) ==
    IF file.kind = "missing" THEN Some(FileReadError(file.path, "file does not exist"))
    ELSE IF file.kind = "directory" THEN Some(FileReadError(file.path, "path is not a file"))
    ELSE None

\* read_hl7_file: the text of the file, in the first encoding that decodes it
read_hl7_file(file) ==
    LET accepted == {i \in 1..Len(ENCODINGS_TO_TRY) : Decodes(file, ENCODINGS_TO_TRY[i])}
    IN  IF PathError(file) # None THEN Raised(PathError(file)[1])
        ELSE IF file.kind = "unreadable"
        THEN Raised(FileReadError(file.path, PermissionError(file).text))
        ELSE IF accepted = {}
        THEN Raised(FileReadError(file.path,
                                  "could not decode file with any supported encoding: "
                                  \o UnicodeDecodeError(file).text))
        ELSE Returned(FileText(file))

\* parse_hl7_file: the list returned and the error raised
parse_hl7_file(file, strict) ==
    LET parsed(r) == [results |-> r.results, error |-> r.error]
        read(c) ==
            IF c.error # None THEN [results |-> <<>>, error |-> c.error]
            ELSE parsed(parse(Delimiters, strict, c.value))
    IN  read(read_hl7_file(file))

\* the loop of stream_hl7_file over the lines of the file, from line i, and
\* the last message after it: the results yielded and the error raised
RECURSIVE StreamLoop(_, _, _, _, _, _, _)
StreamLoop(d, strict, lines, i, current_message_lines, message_idx, yielded) ==
    LET at_end == i > Len(lines)
        stripped == IF at_end THEN "" ELSE strip(lines[i])
        next(d2, current, idx, out) ==
            IF at_end THEN [results |-> out, error |-> None]
            ELSE StreamLoop(d2, strict, lines, i + 1, current, idx, out)
        parsed(r) ==
            IF r.error # None THEN [results |-> yielded, error |-> r.error]
            ELSE next(r.delimiters, <<stripped>>, message_idx + 1, Append(yielded, r.value))
    IN  IF (at_end \/ StartsWith(stripped, "MSH")) /\ Len(current_message_lines) > 0
        THEN parsed(parse_single_message(d, strict, join("\n", current_message_lines),
                                         message_idx))
        ELSE IF at_end \/ stripped = ""
        THEN next(d, current_message_lines, message_idx, yielded)
        ELSE IF StartsWith(stripped, "MSH") THEN next(d, <<stripped>>, message_idx, yielded)
        ELSE next(d, IF Len(current_message_lines) > 0
                     THEN Append(current_message_lines, stripped)
                     ELSE current_message_lines,
                  message_idx, yielded)

\* stream_hl7_file, run to its end: the results yielded and the error raised.
\* open() decodes nothing, so the first encoding is always the one used and
\* the first read of the lines raises when the bytes are not UTF-8.
stream_hl7_file(file, strict) ==
    IF PathError(file) # None THEN [results |-> <<>>, error |-> PathError(file)]
    ELSE IF file.kind = "unreadable" THEN [results |-> <<>>, error |-> Some(PermissionError(file))]
    ELSE IF ~Decodes(file, ENCODINGS_TO_TRY[1])
    THEN [results |-> <<>>, error |-> Some(UnicodeDecodeError(file))]
    ELSE StreamLoop(Delimiters, strict, split(normalize_line_endings(FileText(file)), "\n"),
                    1, <<>>, 0, <<>>)

\* [r.appointment.to_dict() for r in results]
RECURSIVE AppointmentDicts(_)
AppointmentDicts(rs) ==
    IF Len(rs) = 0 THEN <<>>
    ELSE <<Appointment_to_dict(rs[1].appointment)>> \o AppointmentDicts(Tail(rs))

HL7_ERRORS ==
    {"InvalidMessageTypeError", "MissingSegmentError", "MalformedSegmentError",
     "InvalidTimestampError", "FileReadError"}

NO_MESSAGES == "No valid SIU messages found in file"

\* what a run of main leaves: the exit status, the line on stderr and the
\* values printed on stdout as JSON
Ran(exit, stderr, stdout) == [exit |-> exit, stderr |-> stderr, stdout |-> stdout]

\* the except clauses of main
Handled(e, stdout) ==
    IF e.kind = "FileReadError" THEN Ran(1, "Error reading file: " \o e.text, stdout)
    ELSE IF e.kind \in HL7_ERRORS THEN Ran(2, "Parse error: " \o e.text, stdout)
    ELSE Ran(3, "Unexpected error: " \o e.text, stdout)

\* main([path]) and main([path, "--stream"]), with "--strict" when strict
main(file, stream, strict) ==
    LET printed(dicts) ==
            IF stream THEN dicts
            ELSE IF Len(dicts) = 1 THEN <<dicts[1]>> ELSE <<dicts>>
        done(r) ==
            IF r.error # None
            THEN Handled(r.error[1], IF stream THEN AppointmentDicts(r.results) ELSE <<>>)
            ELSE IF Len(r.results) = 0 THEN Ran(1, NO_MESSAGES, <<>>)
            ELSE Ran(0, "", printed(AppointmentDicts(r.results)))
    IN  done(IF stream THEN stream_hl7_file(file, strict) ELSE parse_hl7_file(file, strict))

\* the files of the runs: the three paths that hold no readable file, and
\* the inputs of MultiInputs written to a file, in UTF-8 or not
Files ==
    {File("missing", "missing.hl7", <<>>, 1, TRUE), File("directory", "inbox", <<>>, 1, TRUE),
     File("unreadable", "locked.hl7", <<>>, 1, TRUE)}
    \cup {File("file", "in.hl7", in.msgs, in.style, TRUE) : in \in MultiInputs}
    \cup {File("file", "in.hl7", in.msgs, in.style, FALSE) :
            in \in {x \in MultiInputs : Len(x.msgs) > 0}}

FileInputs == {[file |-> f, strict |-> s] : f \in Files, s \in BOOLEAN}

MainInputs == {[file |-> f, stream |-> m, strict |-> s] : f \in Files, m \in BOOLEAN, s \in BOOLEAN}

\* a call that builds its own parser returned value (a list) or raised e
Called(name, in, value, e) ==
    /\ op = "idle"
    /\ op' = name
    /\ input' = in
    /\ content' = IF in.file.kind = "file" THEN FileText(in.file) ELSE ""
    /\ results' = value
    /\ segments' = <<>>
    /\ error' = e
    /\ UNCHANGED <<strict_mode, delimiters>>

\* main([path, ...]) of hl7_parser.py
Main(in) ==
    LET ran(r) == Called("main", in, <<r>>, None)
    IN  ran(main(in.file, in.stream, in.strict))

NextMain ==
    \/ \E in \in MainInputs : Main(in)
    \/ Forget

SpecMain == Init /\ [][NextMain]_vars

\* parser._parse_single_message(message_text, 0) on the text of one message
ParseSingleMessage(in) ==
    LET returned(text, r) ==
            /\ op = "idle"
            /\ op' = "parse_single_message"
            /\ input' = in
            /\ content' = text
            /\ delimiters' = r.delimiters
            /\ results' = IF r.error = None THEN <<r.value>> ELSE <<>>
            /\ error' = r.error
            /\ segments' = <<>>
            /\ UNCHANGED strict_mode
        called(text) == returned(text, parse_single_message(delimiters, strict_mode, text, 0))
    IN  called(Render(in))

NextGates ==
    \/ \E in \in SingleInputs : ParseSingleMessage(in)
    \/ Forget

SpecGates == Init /\ [][NextGates]_vars

\* SCHExtractor.extract_reason: SCH-6 and SCH-7 are made of a code and a
\* text, each one of the values below
REASON_VALUES == <<"", " ", "CONSULT", " Follow up ">>

\* code^text, or the code alone
ReasonField(code, text, plain) == IF plain /\ text = "" THEN code ELSE code \o "^" \o text

\* texts: the values of SCH-6 text, SCH-6 code, SCH-7 text, SCH-7 code
ReasonInputs ==
    {[texts |-> <<a, b, c, e>>, plain |-> p, enc |-> x] :
        a \in 1..Len(REASON_VALUES), b \in 1..Len(REASON_VALUES), c \in 1..Len(REASON_VALUES),
        e \in 1..Len(REASON_VALUES), p \in BOOLEAN, x \in {DEFAULT_ENC, CUSTOM_ENC}}

ReasonFields(in) ==
    LET v(k) == REASON_VALUES[in.texts[k]]
    IN  <<"SCH", "PL123", "AP456", "", "", "",
          ReasonField(v(2), v(1), in.plain), ReasonField(v(4), v(3), in.plain), "", "X">>

\* SCHExtractor(delimiters).extract_reason(segment)
ExtractReason(in) ==
    LET of(seg) ==
            Extracted("extract_reason", in, seg, <<extract_reason(DelimitersOf(in.enc), seg)>>)
    IN  of(SegmentOfFields(ReasonFields(in), FALSE, in.enc))

NextReason ==
    \/ op = "idle" /\ \E in \in ReasonInputs : ExtractReason(in)
    \/ Forget

SpecReason == Init /\ [][NextReason]_vars

\* the records written for one SIU^S12 message whose SCH line, when it has
\* one, carries the placer and filler ids of the input
RecordInputs ==
    {[placer |-> p, filler |-> f, sch |-> s, pid |-> i, pv1 |-> v] :
        p \in 1..Len(PLACER_IDS), f \in 1..Len(FILLER_IDS), s \in BOOLEAN,
        i \in 0..Len(PID_LINES), v \in 0..1}

RecordMessage(in) ==
    join("\n", <<Headers[1].line>>
               \o (IF in.sch THEN <<join("|", TrimFields(SchFields(in)))>> ELSE <<>>)
               \o (IF in.pid = 0 THEN <<>> ELSE <<PID_LINES[in.pid].line>>)
               \o (IF in.pv1 = 0 THEN <<>> ELSE <<PV1_LINES[in.pv1].line>>))

\* [r.appointment.to_dict() for r in parser.parse(content)]
ToDict(in) ==
    LET returned(text, r) ==
            /\ op = "idle"
            /\ op' = "to_dict"
            /\ input' = in
            /\ content' = text
            /\ delimiters' = r.delimiters
            /\ results' = AppointmentDicts(r.results)
            /\ error' = r.error
            /\ segments' = <<>>
            /\ UNCHANGED strict_mode
        called(text) == returned(text, parse(delimiters, strict_mode, text))
    IN  called(RecordMessage(in))

NextRecord ==
    \/ \E in \in RecordInputs : ToDict(in)
    \/ Forget

SpecRecord == Init /\ [][NextRecord]_vars

\* parse_hl7_file(path, strict)
ParseFile(in) ==
    LET returned(r) == Called("parse_hl7_file", in, r.results, r.error)
    IN  returned(parse_hl7_file(in.file, in.strict))

\* list(stream_hl7_file(path, strict)), with the results yielded before an error
StreamFile(in) ==
    LET returned(r) == Called("stream_hl7_file", in, r.results, r.error)
    IN  returned(stream_hl7_file(in.file, in.strict))

NextFile ==
    \/ \E in \in FileInputs : ParseFile(in)
    \/ \E in \in FileInputs : StreamFile(in)
    \/ Forget

SpecFile == Init /\ [][NextFile]_vars

(***************************************************************************)
(* The claims                                                              *)
(***************************************************************************)
\* sub in s
Contains(s, sub) == \E i \in 1..(Len(s) - Len(sub) + 1) : SubSeq(s, i, i + Len(sub) - 1) = sub

\* the last call was parse on the text of exactly one message with a header
ParsedOne == op = "parse" /\ Len(input.msgs) = 1 /\ input.msgs[1].header # 0

TheMsg == input.msgs[1]

TheHeader == Headers[TheMsg.header]

ErrorKind == IF error = None THEN "" ELSE error[1].kind

\* a header that declares SIU with trigger S12 or none and passes every gate
ValidSIU(m) == m.header # 0 /\ Headers[m.header].gate = "pass"

\* C1: parse of one well-formed SIU^S12 message with MSH, SCH, PID and PV1
\* returns exactly one result with no warnings, whose appointment id is the SCH
\* filler id, whose datetime is the normalized SCH-11 timestamp ending in Z,
\* whose reason is the text component of SCH-7, whose patient comes from PID
\* 3, 5, 7, 8 and whose provider id and name come from PV1-7.
C1_WellFormed ==
    ParsedOne /\ ValidSIU(TheMsg) /\ TheHeader.trigger = "S12"
              /\ TheMsg.sch # 0 /\ TheMsg.pid # 0 /\ TheMsg.pv1 # 0

C1_SampleParse ==
    C1_WellFormed =>
        /\ error = None
        /\ Len(results) = 1
        /\ results[1].warnings = <<>>
        /\ LET a   == results[1].appointment
               sch == SCH_LINES[TheMsg.sch]
               pid == PID_LINES[TheMsg.pid]
               pv1 == PV1_LINES[TheMsg.pv1]
           IN  /\ a.appointment_id = sch.appointment_id
               /\ a.appointment_datetime = Some(sch.appointment_datetime)
               /\ a.reason = Some(sch.reason)
               /\ a.patient = Some(Patient(pid.id, Some(pid.first_name), Some(pid.last_name),
                                           Some(pid.dob), Some(pid.gender)))
               /\ a.provider # None
               /\ a.provider[1].id = pv1.id
               /\ a.provider[1].name # None
               /\ Contains(a.provider[1].name[1], pv1.given)
               /\ Contains(a.provider[1].name[1], pv1.family)

\* the sample message of the specification has been parsed
C1_Witness ==
    /\ C1_WellFormed
    /\ TheMsg = Msg(1, 1, 1, 1)
    /\ Len(results) = 1
    /\ results[1].appointment.appointment_id = "AP456"
    /\ results[1].appointment.appointment_datetime = Some("2025-05-02T14:00:00Z")

\* the message got as far as message-type validation: neither the delimiters
\* nor the structure of the header were refused
C2_ReachedTypeGate == ParsedOne /\ ErrorKind # "MalformedSegmentError"

C2_Accepts == TheHeader.type = "SIU" /\ TheHeader.trigger \in {"", "S12"}

C2_IffAccepted == C2_Accepts <=> ErrorKind # "InvalidMessageTypeError"

\* C2 (as amended): message-type validation accepts a message iff the type
\* component of header field 9 is "SIU" and the trigger component is empty or
\* "S12"; every other message makes parse raise InvalidMessageType, whose text
\* names the expected "SIU^S12" and the actual value, written TYPE^TRIGGER
\* when the trigger is not empty and TYPE alone when it is.
C2_TypeValidation ==
    C2_ReachedTypeGate =>
        /\ C2_IffAccepted
        /\ ErrorKind = "InvalidMessageTypeError" =>
              /\ Contains(error[1].text, "expected 'SIU^S12'")
              /\ Contains(error[1].text,
                          "got '" \o (IF TheHeader.trigger # ""
                                      THEN TheHeader.type \o "^" \o TheHeader.trigger
                                      ELSE TheHeader.type) \o "'")

\* C2 (as claimed): the same, with the actual value always written TYPE^TRIGGER
C2_TypeValidation_Original ==
    C2_ReachedTypeGate =>
        /\ C2_IffAccepted
        /\ ErrorKind = "InvalidMessageTypeError" =>
              /\ Contains(error[1].text, "expected 'SIU^S12'")
              /\ Contains(error[1].text,
                          "got '" \o TheHeader.type \o "^" \o TheHeader.trigger \o "'")

\* a message of another type with no trigger event has been refused
C2_Witness ==
    /\ C2_ReachedTypeGate
    /\ TheHeader.type = "ADT" /\ TheHeader.trigger = ""
    /\ ErrorKind = "InvalidMessageTypeError"

\* C3: for a valid SIU^S12 message with no SCH segment, lenient parse returns
\* a result whose appointment id is "UNKNOWN" and whose first warning mentions
\* the SCH segment; strict parse raises MissingSegment naming "SCH".
C3_NoSCH == ParsedOne /\ ValidSIU(TheMsg) /\ TheMsg.sch = 0

C3_MissingSCH ==
    C3_NoSCH =>
        IF strict_mode
        THEN /\ ErrorKind = "MissingSegmentError"
             /\ error[1].segment = "SCH"
             /\ Contains(error[1].text, "SCH")
        ELSE /\ error = None
             /\ Len(results) = 1
             /\ results[1].appointment.appointment_id = "UNKNOWN"
             /\ Len(results[1].warnings) >= 1
             /\ Contains(results[1].warnings[1], "SCH")

\* a lenient parser has returned the sentinel for a message with no SCH segment
C3_Witness ==
    /\ C3_NoSCH /\ ~strict_mode /\ TheMsg.pid # 0
    /\ Len(results) = 1
    /\ results[1].appointment.appointment_id = "UNKNOWN"

HasWarning(r, seg_type) ==
    \E i \in 1..Len(r.warnings) : Contains(r.warnings[i], seg_type \o " segment not found")

\* C4: strictness is asymmetric.  In a message that is valid up to there, an
\* absent PID segment raises MissingSegment("PID") in strict mode and in
\* lenient mode yields a warning with the patient absent; an absent PV1
\* segment raises in neither mode and yields a warning with the provider absent.
C4_NoPID == ParsedOne /\ ValidSIU(TheMsg) /\ TheMsg.sch # 0 /\ TheMsg.pid = 0

C4_NoPV1 ==
    /\ ParsedOne /\ ValidSIU(TheMsg) /\ TheMsg.pv1 = 0
    /\ strict_mode => (TheMsg.sch # 0 /\ TheMsg.pid # 0)

ValidMsg(m, strict) == ValidSIU(m) /\ (strict => (m.sch # 0 /\ m.pid # 0))

\* C5: for input with N header lines where every message is valid, parse
\* returns exactly N results in input order and the i-th result (0-based)
\* carries source message index i.
C5_AllValid ==
    /\ op = "parse"
    /\ \A i \in 1..Len(input.msgs) : ValidMsg(input.msgs[i], strict_mode)

C5_OnePerHeader ==
    C5_AllValid =>
        /\ error = None
        /\ Len(results) = Len(input.msgs)
        /\ \A i \in 1..Len(results) :
              /\ results[i].source_message_index = i - 1
              /\ results[i].appointment.message_control_id
                     = Some(Headers[input.msgs[i].header].ctrl)

\* two different valid messages have been parsed in one call
C5_Witness ==
    /\ C5_AllValid
    /\ Len(input.msgs) = 2
    /\ input.msgs[1] # input.msgs[2]
    /\ Len(results) = 2
    /\ results[2].source_message_index = 1

\* C6: if any message of the input hits a hard failure (bad delimiters,
\* malformed header, wrong message type, strict-mode missing segment), parse
\* raises an error and returns no results at all, not even for the messages
\* before the failing one.
C6_SomeFailure ==
    /\ op = "parse"
    /\ \E i \in 1..Len(input.msgs) : ~ValidMsg(input.msgs[i], strict_mode)

C6_NoPartialResults ==
    C6_SomeFailure =>
        /\ ErrorKind \in {"MalformedSegmentError", "InvalidMessageTypeError",
                          "MissingSegmentError"}
        /\ results = <<>>

\* a call has failed on its second message, the first one being valid
C6_Witness ==
    /\ C6_SomeFailure
    /\ Len(input.msgs) = 2
    /\ ValidMsg(input.msgs[1], strict_mode)
    /\ error # None
    /\ results = <<>>

\* the header line of the text of the last call, "" if it has none
HeaderLine ==
    IF Len(input.msgs) = 0 \/ input.msgs[1].header = 0 THEN ""
    ELSE Headers[input.msgs[1].header].line

\* C7: delimiters are detected afresh for every message: after tokenizing, the
\* field separator is the character after "MSH" and the next four characters
\* are the encoding characters; if the header line has fewer than 8
\* characters, or the text has no header line, the delimiters in effect are
\* the defaults, whatever the tokenizer processed before.
C7_FreshDelimiters ==
    (op = "tokenize" /\ error = None) =>
        IF Len(HeaderLine) >= 8
        THEN delimiters = [field |-> CharAt(HeaderLine, 4),
                           component |-> CharAt(HeaderLine, 5),
                           repetition |-> CharAt(HeaderLine, 6),
                           escape |-> CharAt(HeaderLine, 7),
                           subcomponent |-> CharAt(HeaderLine, 8)]
        ELSE /\ delimiters.component = DEFAULT_COMPONENT_SEPARATOR
             /\ delimiters.repetition = DEFAULT_REPETITION_SEPARATOR
             /\ delimiters.escape = DEFAULT_ESCAPE_CHARACTER
             /\ delimiters.subcomponent = DEFAULT_SUBCOMPONENT_SEPARATOR
             /\ Len(HeaderLine) < 4 => delimiters.field = DEFAULT_FIELD_SEPARATOR

\* the outcome of each message of the last call when a fresh parser parses it
FreshOutcome(i) ==
    parse_single_message(Delimiters, strict_mode, split_hl7_messages(content)[i], i - 1)

\* C8: the outcome of parsing a message depends only on its own text and the
\* strict flag: after any other messages, the parser gives each message the
\* result, or the kind of error, a fresh parser gives it.
C8_Independent ==
    op = "parse" =>
        LET n   == Len(split_hl7_messages(content))
            bad == {i \in 1..n : FreshOutcome(i).error # None}
        IN  IF bad = {}
            THEN error = None /\ results = [i \in 1..n |-> FreshOutcome(i).value]
            ELSE LET k == CHOOSE i \in bad : \A j \in bad : i <= j
                 IN  ErrorKind = FreshOutcome(k).error[1].kind

ValidDelimiters(d) ==
    /\ \A i \in 1..5 : LET c == d[DelimiterNames[i]]
                       IN  Len(c) = 1 /\ ~isalnum(c) /\ ~isspace(c)
    /\ \A i, j \in 1..5 : i # j => d[DelimiterNames[i]] # d[DelimiterNames[j]]

\* C9: tokenizing fails with MalformedSegment whenever a delimiter is
\* alphanumeric or whitespace or two of them are the same, so after every
\* successful tokenize call the five delimiters in effect are pairwise
\* distinct, non-alphanumeric, non-whitespace single characters.
C9_ValidAfterSuccess ==
    (op = "tokenize" /\ error = None) => ValidDelimiters(delimiters)

\* C10: parse returns an empty sequence and raises nothing for empty,
\* whitespace-only and blank-lines-only input, and for input that has segment
\* lines but no line starting with MSH.
C10_NoHeader == op = "parse" /\ \A i \in 1..Len(input.msgs) : input.msgs[i].header = 0

C10_EmptyForNoHeader == C10_NoHeader => (results = <<>> /\ error = None)

\* segment lines with no header line have been parsed
C10_Witness ==
    /\ C10_NoHeader
    /\ input.msgs = <<Msg(0, 1, 1, 0)>>
    /\ results = <<>>
    /\ error = None

\* the stripped lines of the content of the last split call
SplitStripped == [i \in 1..Len(input.lines) |-> SPLIT_LINES[input.lines[i]].stripped]

\* the positions of the header lines, and the k-th of them
SplitHeads == {i \in 1..Len(input.lines) : StartsWith(SplitStripped[i], "MSH")}

SplitHead(k) == CHOOSE i \in SplitHeads : Cardinality({j \in SplitHeads : j < i}) = k - 1

\* the non-blank lines from the k-th header line up to the next one
SplitBody(k) ==
    NonEmpty(SubSeq(SplitStripped, SplitHead(k),
                    IF k < Cardinality(SplitHeads) THEN SplitHead(k + 1) - 1
                    ELSE Len(input.lines)))

\* C11: split_hl7_messages returns one message text per non-blank line whose
\* stripped content starts with "MSH", in input order; each text is its header
\* line followed by exactly the non-blank, non-header lines between that
\* header and the next, in order; blank lines and the lines before the first
\* header are in no message; CRLF, CR and LF are all line ends.
C11_SplitMessages ==
    op = "split" =>
        /\ Len(results) = Cardinality(SplitHeads)
        /\ \A k \in 1..Len(results) : split(results[k], "\n") = SplitBody(k)

\* a content with CR line ends, a line before the first header and two headers
C11_Witness ==
    /\ op = "split"
    /\ input.style = 3
    /\ input.lines = <<3, 1, 2>>
    /\ results = <<"MSH|1", "MSH|2">>

\* the item of xs at the 0-based index i, "" when i is out of range
ItemAt(xs, i) == IF i < 0 \/ i >= Len(xs) THEN "" ELSE xs[i + 1]

\* the field, the component and the subcomponent the last accessor call selects
SelectedField == ItemAt(segments[1].fields, input.field_index)

SelectedComponent ==
    IF SelectedField = "" THEN ""
    ELSE ItemAt(split(SelectedField, SEGMENT_FIELDS[input.seg].component_sep), input.component_index)

SelectedSubcomponent ==
    IF SelectedComponent = "" THEN ""
    ELSE ItemAt(split(SelectedComponent, SEGMENT_FIELDS[input.seg].subcomponent_sep),
                input.subcomponent_index)

\* what an accessor has to return when it selects item
OrDefault(item) == IF item = "" THEN <<input.default>> ELSE <<item>>

\* C12: get_field, get_component and get_subcomponent return a value for every
\* index, negative, in range or past the end, and every segment: the default
\* when an index is out of range or the selected item is the empty string, and
\* the selected item otherwise.
C12_SafeAccessors ==
    /\ op \in {"get_field", "get_component", "get_subcomponent"} => error = None
    /\ op = "get_field" => results = OrDefault(SelectedField)
    /\ op = "get_component" => results = OrDefault(SelectedComponent)
    /\ op = "get_subcomponent" => results = OrDefault(SelectedSubcomponent)

\* a negative field index on a segment with fields gave the default
C12_Witness ==
    /\ op = "get_subcomponent"
    /\ input.seg = 1 /\ input.field_index = 0 - 1 /\ input.default = "N/A"
    /\ results = <<"N/A">>

\* C13: tokenizing the text rebuilt from the raw_text of the segments that
\* tokenize returned, joined with line breaks, returns the same segments again
\* (same types, same fields, same raw text) and raises nothing.
C13_RetokenizeSame == op = "retokenize" => error = None /\ segments = results

\* a message with a header that sets its own delimiters was tokenized twice
C13_Witness ==
    /\ op = "retokenize"
    /\ Len(results) >= 3
    /\ delimiters # Delimiters
    /\ segments = results
    /\ content # Render(input)

\* the components of the value of the last timestamp call, as numbers
PartInt(k) == DigitsToInt(input.parts[k])

Carries(k) == k <= Len(input.parts)

BadMonth == Carries(2) /\ PartInt(2) \notin 1..12

\* a day outside 1-31, or one the month does not have
BadDay ==
    /\ Carries(3)
    /\ \/ PartInt(3) \notin 1..31
       \/ PartInt(2) \in 1..12 /\ PartInt(3) > DaysInMonth(PartInt(1), PartInt(2))

BadHour == Carries(4) /\ PartInt(4) \notin 0..23

BadMinute == Carries(5) /\ PartInt(5) \notin 0..59

BadSecond == Carries(6) /\ PartInt(6) \notin 0..59

ValidParts == ~(BadMonth \/ BadDay \/ BadHour \/ BadMinute \/ BadSecond)

TheSuffix == TIME_SUFFIXES[input.suffix]

\* the normalized form of the components of each precision level, without zone
Granularity ==
    LET p == input.parts
    IN  CASE Len(p) = 1 -> p[1]
          [] Len(p) = 2 -> p[1] \o "-" \o p[2]
          [] Len(p) = 3 -> p[1] \o "-" \o p[2] \o "-" \o p[3]
          [] Len(p) = 4 -> p[1] \o "-" \o p[2] \o "-" \o p[3] \o "T" \o p[4] \o ":00:00"
          [] Len(p) = 5 ->
                p[1] \o "-" \o p[2] \o "-" \o p[3] \o "T" \o p[4] \o ":" \o p[5] \o ":00"
          [] Len(p) = 6 ->
                p[1] \o "-" \o p[2] \o "-" \o p[3] \o "T" \o p[4] \o ":" \o p[5]
                \o ":" \o p[6]

\* C14: a valid value of each of the six precision levels, without fraction
\* or offset, normalizes to YYYY, YYYY-MM, YYYY-MM-DD, YYYY-MM-DDTHH:00:00,
\* YYYY-MM-DDTHH:MM:00 or YYYY-MM-DDTHH:MM:SS; the three forms with a time
\* end in "Z" when UTC is assumed and carry no suffix otherwise; the three
\* without a time never carry a zone.
C14_Granularity ==
    (/\ op = "parse_hl7_timestamp"
     /\ IsComposed(input)
     /\ TheSuffix.fraction = "" /\ TheSuffix.offset = ""
     /\ ValidParts)
    => /\ error = None
       /\ results = <<Granularity \o (IF Len(input.parts) >= 4 /\ input.assume_utc
                                      THEN "Z" ELSE "")>>

\* a leap day with hour, minute and second under the UTC assumption
C14_Witness ==
    /\ op = "parse_hl7_timestamp"
    /\ IsComposed(input)
    /\ input.parts = <<"2024", "02", "29", "23", "00", "59">>
    /\ input.suffix = 1
    /\ input.assume_utc
    /\ results = <<"2024-02-29T23:00:59Z">>

\* C15: parse_hl7_timestamp raises InvalidTimestamp for every value, at every
\* precision level that carries the component, whose month is outside 1-12,
\* whose day is outside 1-31 or does not exist in its month, whose hour is
\* outside 0-23 or whose minute or second is outside 0-59; it never returns a
\* normalized string for such a value.
C15_RejectsInvalid ==
    (/\ op = "parse_hl7_timestamp"
     /\ IsComposed(input)
     /\ ~ValidParts)
    => /\ results = None
       /\ error # None
       /\ error[1].kind = "InvalidTimestampError"

\* C16: parse_hl7_timestamp accepts every value made of a valid digit string
\* of length 4, 6, 8, 10, 12 or 14, optionally followed by a fractional part,
\* optionally followed by a +HHMM or -HHMM offset: the offset may follow any of
\* the six precision levels.
C16_AcceptsGrammar ==
    (/\ op = "parse_hl7_timestamp"
     /\ IsComposed(input)
     /\ ValidParts
     /\ TheSuffix.offset = "" \/ IsTzOffset(TheSuffix.offset))
    => /\ error = None
       /\ results # None

EndsWith(s, t) == Len(s) >= Len(t) /\ SubSeq(s, Len(s) - Len(t) + 1, Len(s)) = t

\* the zone an explicit offset has to be normalized to
ZoneOf(offset) ==
    IF offset \in {"+0000", "-0000", "Z"} THEN "Z"
    ELSE SubSeq(offset, 1, 3) \o ":" \o SubSeq(offset, 4, 5)

\* the last call normalized a value with an explicit offset to a string that
\* ends in the zone of that offset
NormalizedZone ==
    /\ error = None
    /\ results # None
    /\ EndsWith(results[1], ZoneOf(TheSuffix.offset))

\* C17: a value with an explicit offset +0000, -0000 or Z normalizes to a
\* string ending in "Z", and one with any other +HHMM or -HHMM offset to a
\* string ending in +HH:MM or -HH:MM, whether UTC is assumed or not.
C17_ExplicitOffset ==
    (/\ op = "parse_hl7_timestamp"
     /\ IsComposed(input)
     /\ ValidParts
     /\ TheSuffix.offset # "")
    => NormalizedZone

\* the last call converted the offset x without its colon, x being +HH:MM or -HH:MM
ConvertedBack == op = "convert_tz_offset" /\ IsTzOffset(input.hl7)

\* C18 as stated: for any legal +HH:MM or -HH:MM offset x, removing the colon
\* and converting back yields x.
C18_RoundTrip_Original == ConvertedBack => results = <<input.iso>>

\* C18: for any +HH:MM or -HH:MM offset x other than +00:00 and -00:00,
\* removing the colon and converting back yields x; for +00:00 and -00:00 it
\* yields "Z".
C18_RoundTrip ==
    ConvertedBack =>
        results = <<IF input.iso \in {"+00:00", "-00:00"} THEN "Z" ELSE input.iso>>

\* a negative offset with minutes came back unchanged
C18_Witness ==
    /\ ConvertedBack
    /\ input.iso = "-14:45"
    /\ content = "-1445"
    /\ results = <<"-14:45">>

\* YYYY-MM-DD
IsIsoDate(s) ==
    /\ Len(s) = 10
    /\ AllDigits(SubSeq(s, 1, 4)) /\ CharAt(s, 5) = "-"
    /\ AllDigits(SubSeq(s, 6, 7)) /\ CharAt(s, 8) = "-"
    /\ AllDigits(SubSeq(s, 9, 10))

\* C19: parse_hl7_date returns no value for a blank input and, for any other
\* input, either raises InvalidTimestamp or returns an ISO date YYYY-MM-DD:
\* the date of an 8-character value, or the date portion of what the general
\* timestamp parser returns.
C19_IsoDateOrNothing ==
    op = "parse_hl7_date" =>
        IF strip(content) = "" THEN results = None /\ error = None
        ELSE \/ error # None /\ error[1].kind = "InvalidTimestampError" /\ results = None
             \/ error = None /\ results # None /\ IsIsoDate(results[1])

\* the provider a field of a doctor stands for
ProviderOf(doctor) == Provider(doctor.id, OrNone(doctor.name))

\* the last call of extract_appointment_id had a placer id and a filler id
BothIds ==
    /\ op = "extract_appointment_id"
    /\ PLACER_IDS[input.placer].id # ""
    /\ FILLER_IDS[input.filler].id # ""

\* C20 as stated: when both the placer and the filler id are present the
\* appointment id is the filler id; when both the attending and the admitting
\* field are populated the provider is taken from the attending field.
C20_FallbackOrder_Original ==
    /\ BothIds => results = <<FILLER_IDS[input.filler].id>>
    /\ (/\ op = "extract_provider"
        /\ ATTENDING[input.attending].value # ""
        /\ ADMITTING[input.admitting].value # "")
       => results = <<ProviderOf(ATTENDING[input.attending])>>

\* C20: when both the placer and the filler id are present the appointment
\* id is the filler id; when both the attending and the admitting field hold
\* an identifier the provider is taken from the attending field.
C20_FallbackOrder ==
    /\ BothIds => results = <<FILLER_IDS[input.filler].id>>
    /\ (/\ op = "extract_provider"
        /\ ATTENDING[input.attending].id # ""
        /\ ADMITTING[input.admitting].id # "")
       => results = <<ProviderOf(ATTENDING[input.attending])>>

\* attending and admitting doctor both have an identifier, custom delimiters
C20_Witness ==
    /\ op = "extract_provider"
    /\ input.attending = 2 /\ input.admitting = 2 /\ input.referring = 2
    /\ input.enc = CUSTOM_ENC
    /\ results = <<Provider("D67890", Some("Jane Smith Dr."))>>

\* the doctors of the last extract_provider call, in the order the fields are
\* tried: PV1-7, PV1-17, PV1-8
Candidates == <<ATTENDING[input.attending], ADMITTING[input.admitting], REFERRING[input.referring]>>

WithId == {i \in 1..3 : Candidates[i].id # ""}

WithName == {i \in 1..3 : Candidates[i].name # ""}

\* the first candidate with an identifier supplied the provider
FirstWithId == results = <<ProviderOf(Candidates[CHOOSE i \in WithId : \A j \in WithId : i <= j])>>

\* the provider has the sentinel id and the display name of a candidate
UnknownWithName ==
    /\ results # None
    /\ results[1].id = "UNKNOWN"
    /\ \E i \in WithName : results[1].name = Some(Candidates[i].name)

\* C21: the provider comes from the first of PV1-7, PV1-17, PV1-8 that has a
\* non-empty identifier, id and name both; with no identifier in any of them
\* the provider is absent, unless one of them carried a display name, and then
\* the provider has that name and the id "UNKNOWN".
C21_ProviderResolution ==
    op = "extract_provider" =>
        IF WithId # {} THEN FirstWithId
        ELSE IF WithName = {} THEN results = None
        ELSE UnknownWithName

\* the places of the last extract_appointment_datetime call whose value
\* normalizes to a timestamp
Normalizing == {k \in 1..4 : TIMING_VALUES[input.places[k]].iso # ""}

\* C22: the appointment start is the first successfully normalized timestamp
\* among SCH-10 component 3, SCH-10 component 0, SCH-11 component 3 and SCH-11
\* component 0, in that order; it is absent only if none of them yields one.
C22_FirstTimestamp ==
    op = "extract_appointment_datetime" =>
        IF Normalizing = {} THEN results = None
        ELSE results = <<TIMING_VALUES[input.places[CHOOSE k \in Normalizing :
                                                     \A j \in Normalizing : k <= j]].iso>>

\* the last call parsed a message with the timestamps of STAMP_VALUES
ParsedStamped == op = "parse" /\ "msh7" \in DOMAIN input

\* C23: a timestamp that is present but unparseable or calendrically invalid
\* in MSH-7, SCH-10, SCH-11 or PID-7 never makes parse fail: the message
\* yields its result, the output field of an invalid value is absent and that
\* of a valid value is its normalized form (the appointment start being the
\* first valid one of SCH-10 and SCH-11).
C23_TimestampsSwallowed ==
    ParsedStamped =>
        /\ error = None
        /\ Len(results) = 1
        /\ results[1].appointment.message_datetime = OrNone(STAMP_VALUES[input.msh7].iso)
        /\ results[1].appointment.appointment_datetime =
              OrNone(IF STAMP_VALUES[input.sch10].iso # "" THEN STAMP_VALUES[input.sch10].iso
                     ELSE STAMP_VALUES[input.sch11].iso)
        /\ results[1].appointment.patient # None
        /\ results[1].appointment.patient[1].dob = OrNone(STAMP_VALUES[input.pid7].date)

\* C24: whenever PID field 3 is present and not empty, the patient of the
\* result has an identifier that is not empty; the identifier is empty only
\* if the field is missing or empty
C24_PatientIdPresent ==
    op = "extract_patient" =>
        (results[1].id = "" => get_field(segments[1], 3, "") = "")

\* the outcome a run of main reports on stderr, "" for one that reports none
\* of the three
Outcome(r) ==
    IF StartsWith(r.stderr, "Error reading file: ") THEN "file-access failure"
    ELSE IF StartsWith(r.stderr, "Parse error: ") THEN "structural parse failure"
    ELSE IF r.stderr = NO_MESSAGES THEN "zero valid messages"
    ELSE ""

\* one run of each outcome: a missing file, a file whose only message has the
\* wrong type, an empty file
ExitProbes ==
    {main(File("missing", "missing.hl7", <<>>, 1, TRUE), FALSE, FALSE),
     main(File("file", "in.hl7", <<Pool[4]>>, 1, TRUE), FALSE, FALSE),
     main(File("file", "in.hl7", <<>>, 1, TRUE), FALSE, FALSE)}

\* C25: a run of main that reports a file-access failure, a structural parse
\* failure or that no valid message was found returns an exit status that
\* differs from the exit status of every run reporting another of the three
C25_DistinctExits ==
    op = "main" =>
        \A p \in ExitProbes :
            (Outcome(results[1]) # "" /\ Outcome(p) # "" /\ Outcome(results[1]) # Outcome(p))
                => results[1].exit # p.exit

\* the message of a call on one message
TheMessage == input.msgs[1]

\* the first gate the message of the call fails, "pass" if it fails none: the
\* delimiters the tokenizer holds after detection are invalid, the message
\* has no header, its header fails the structure or the type check, or, in
\* strict mode, it has no SCH or no PID line
FirstFailingGate ==
    IF validate_delimiters(delimiters) # None THEN "delimiters"
    ELSE IF TheMessage.header = 0 THEN "presence"
    ELSE IF Headers[TheMessage.header].gate # "pass" THEN Headers[TheMessage.header].gate
    ELSE IF strict_mode /\ TheMessage.sch = 0 THEN "SCH"
    ELSE IF strict_mode /\ TheMessage.pid = 0 THEN "PID"
    ELSE "pass"

\* the kind and the segment of the error each gate raises
GateError(gate) ==
    IF gate = "delimiters" THEN <<"MalformedSegmentError", "MSH">>
    ELSE IF gate = "presence" THEN <<"MissingSegmentError", "MSH">>
    ELSE IF gate = "structure" THEN <<"MalformedSegmentError", "MSH">>
    ELSE IF gate = "type" THEN <<"InvalidMessageTypeError", "MSH">>
    ELSE <<"MissingSegmentError", gate>>

\* C26: a message with at least one segment passes the gates in the order
\* delimiter validation, header presence, header structure, message type,
\* SCH presence, PID presence: the call raises the error of the first gate
\* the message fails, and returns a result if it fails none
C26_GateOrder ==
    (op = "parse_single_message" /\ Len(input.msgs) = 1) =>
        IF FirstFailingGate = "pass" THEN error = None /\ Len(results) = 1
        ELSE /\ error # None
             /\ <<error[1].kind, error[1].segment>> = GateError(FirstFailingGate)
             /\ (FirstFailingGate = "structure")
                    = (error[1].text = MalformedSegmentError("MSH",
                           "MSH segment missing required encoding characters").text)

\* a strict parser raised InvalidMessageTypeError for a message with a wrong
\* type and no SCH line
C26_Witness ==
    /\ op = "parse_single_message"
    /\ strict_mode
    /\ Len(input.msgs) = 1
    /\ FirstFailingGate = "type"
    /\ TheMessage.sch = 0
    /\ error # None
    /\ error[1].kind = "InvalidMessageTypeError"

\* the candidates of the call, in the order SCH-6 text, SCH-6 code, SCH-7
\* text, SCH-7 code, that hold text
WithText == {k \in 1..4 : strip(REASON_VALUES[input.texts[k]]) # ""}

\* C27: the reason is the text of the first candidate that holds any, in the
\* order SCH-6 text, SCH-6 code, SCH-7 text, SCH-7 code, and it is empty
\* only if no candidate holds text
C27_FirstReason ==
    op = "extract_reason" =>
        IF WithText = {} THEN results[1] = ""
        ELSE results[1] = strip(REASON_VALUES[input.texts[CHOOSE k \in WithText :
                                                             \A j \in WithText : k <= j]])

\* C28: a call of tokenize that raises MalformedSegmentError for the header's
\* delimiters leaves the delimiters of the tokenizer as they were before the
\* call
C28_FailedCallKeepsDelimiters ==
    [][(op' = "tokenize" /\ error' # None /\ error'[1].kind = "MalformedSegmentError"
            /\ error'[1].segment = "MSH")
        => delimiters' = delimiters]_vars

\* C29: every record made by Appointment.to_dict for a parsed message has
\* the key appointment_id, also when the SCH line of the message carries
\* neither a filler nor a placer id
C29_AppointmentIdKey ==
    op = "to_dict" => \A i \in 1..Len(results) : "appointment_id" \in DOMAIN results[i]

\* what parse_hl7_file does with the file and the strict flag of the call
Batch == parse_hl7_file(input.file, input.strict)

\* C30: on a file, stream_hl7_file yields the results parse_hl7_file returns,
\* in the same order and with the same source indices, when parse_hl7_file
\* returns; when parse_hl7_file raises, stream_hl7_file raises an error of
\* the same kind
C30_StreamLikeBatch ==
    (op = "stream_hl7_file" /\ input.file.kind = "file") =>
        IF Batch.error = None THEN error = None /\ results = Batch.results
        ELSE error # None /\ error[1].kind = Batch.error[1].kind
====
